---- MODULE Spec2Model ----
(***************************************************************************)
(* Execution gateway (apps/execution-gateway): the idempotent order        *)
(* submission pipeline of gateway.rs with its per-venue circuit breaker    *)
(* (circuit_breaker.rs), retry loop (retry_logic.rs) and janitor, and the  *)
(* order lifecycle manager of order_manager.rs.                            *)
(*                                                                         *)
(* Quantities and prices are f64 in the source; they are modelled as small *)
(* naturals.  Sums are taken in list order, as the source takes them, so   *)
(* equality of two sums over the same list is preserved by the abstraction.*)
(* Time is the wall clock in abstract ticks.                               *)
(***************************************************************************)
EXTENDS Integers, Sequences, FiniteSets, TLC

\* ---------------------------------------------------------------- bounds
MaxTime == 2
\* the clock's bound while the order manager runs
MaxTimeOM == 1
\* the failures recorded on a breaker that is exercised on its own
MaxFailures == 6
\* CircuitBreaker.recovery_timeout_ms, in clock ticks
recovery_timeout == 1

\* ------------------------------------------------- program configuration
\* GatewayConfig.max_retries of test_place_order_with_retry
max_retries == 2
\* GatewayConfig.circuit_breaker_failure_threshold of the breaker tests
circuit_breaker_failure_threshold == 2
\* GatewayConfig::default().circuit_breaker_failure_threshold
default_failure_threshold == 5
\* the thresholds a gateway is configured with
FailureThresholds == {circuit_breaker_failure_threshold, default_failure_threshold}
enable_partial_fills == TRUE

NONE == "none"
\* Option<T>
None == <<>>
Some(x) == <<x>>
Unwrap(o) == o[1]

\* one task per place_order request
Tasks == {"t1", "t2"}
\* decision ids that Uuid::parse_str accepts, and one that it rejects
ValidDecisions == {"d1", "d2"}
Decisions == ValidDecisions \cup {"bad"}
exchange_name == "default"

risk_adjusted_quantity(d) == IF d = "d1" THEN 2 ELSE IF d = "neg" THEN -1 ELSE 1
entry_price(d) == 1

\* the max_age_hours the janitor is called with, in clock ticks
MaxAges == {0, 1}

\* ---------------------------------------------------- venue adapters
\* TradingError values an adapter returns
AdapterErrors == {"ExecutionError: timeout"}

\* The fill maps an adapter reports (AdapterOrderResult.partial_fills); a key
\* the map lacks is NONE
FillData ==
    {[fill_id |-> "f1", quantity |-> Some(1), price |-> Some(1)],
     [fill_id |-> "f2", quantity |-> Some(2), price |-> Some(2)],
     [fill_id |-> NONE, quantity |-> None, price |-> Some(1)]}
FillLists == {<<f>> : f \in FillData} \cup {<<f, g>> : f, g \in FillData}

RECURSIVE SumQuantity(_)
SumQuantity(fs) ==
    IF fs = <<>> THEN 0
    ELSE (IF Head(fs).quantity = None THEN 0 ELSE Unwrap(Head(fs).quantity))
         + SumQuantity(Tail(fs))

Ok(r) == [ok |-> TRUE, value |-> r]
Err(e) == [ok |-> FALSE, error |-> e]

\* MockExchangeAdapter::place_order with should_fail = false and
\* partial_fill_ratio = 0: the order is filled completely at its price;
\* commission is 0.1% of the notional, kept in thousandths
MockFill(d) ==
    [status |-> "Filled", filled_quantity |-> risk_adjusted_quantity(d),
     average_price |-> Some(entry_price(d)),
     commission |-> risk_adjusted_quantity(d) * entry_price(d),
     partial_fills |-> <<>>]

\* MockExchangeAdapter::place_order with_partial_fills(1.0): the whole size is
\* reported as one fill under a fill id made for it, and the status is
\* PartiallyFilled
MockPartialFill(d) ==
    [status |-> "PartiallyFilled", filled_quantity |-> risk_adjusted_quantity(d),
     average_price |-> Some(entry_price(d)),
     commission |-> risk_adjusted_quantity(d) * entry_price(d),
     partial_fills |-> <<[fill_id |-> "new_v4",
                          quantity |-> Some(risk_adjusted_quantity(d)),
                          price |-> Some(entry_price(d))]>>]

\* an adapter that reports fills of its own choosing
ReportedFills(fs) ==
    [status |-> "PartiallyFilled", filled_quantity |-> SumQuantity(fs),
     average_price |-> fs[1].price, commission |-> 0, partial_fills |-> fs]

\* an adapter that accepts the order without executing it yet
Accepted == [status |-> "Pending", filled_quantity |-> 0, average_price |-> None,
             commission |-> 0, partial_fills |-> <<>>]

\* Implementations of the ExchangeAdapter trait: the mock as the tests
\* configure it (always fills, always fails) and venues that answer as they
\* choose
AdapterKinds == {"filling", "failing", "accepting", "flaky", "partial"}

\* ExchangeAdapter::place_order: what adapter `a` may answer for decision d
AdapterPlaceOrder(a, d) ==
    CASE a = "filling" -> {Ok(MockFill(d))}
      [] a = "failing" -> {Err("ExecutionError: Mock order placement failure")}
      [] a = "accepting" -> {Ok(Accepted)}
      [] a = "flaky" -> {Ok(MockFill(d))} \cup {Err(e) : e \in AdapterErrors}
      [] a = "partial" -> {Ok(ReportedFills(fs)) : fs \in FillLists}
      [] a = "rejecting" -> {Err("ExecutionError: insufficient funds")}
      [] a = "filling in part" -> {Ok(MockPartialFill(d))}

\* ------------------------------------------------------------ strings
\* A String is the sequence of its characters.
S_timeout == <<"t", "i", "m", "e", "o", "u", "t">>
S_rate_limit == <<"r", "a", "t", "e", " ", "l", "i", "m", "i", "t">>
S_temporary == <<"t", "e", "m", "p", "o", "r", "a", "r", "y">>
S_service_unavailable ==
    <<"s", "e", "r", "v", "i", "c", "e", " ", "u", "n", "a", "v", "a", "i", "l", "a", "b", "l",
      "e">>
S_insufficient_funds ==
    <<"i", "n", "s", "u", "f", "f", "i", "c", "i", "e", "n", "t", " ", "f", "u", "n", "d", "s">>
S_invalid_order == <<"i", "n", "v", "a", "l", "i", "d", " ", "o", "r", "d", "e", "r">>
S_market_closed == <<"m", "a", "r", "k", "e", "t", " ", "c", "l", "o", "s", "e", "d">>
S_not_found == <<"n", "o", "t", " ", "f", "o", "u", "n", "d">>
S_Insufficient_funds ==
    <<"I", "n", "s", "u", "f", "f", "i", "c", "i", "e", "n", "t", " ", "f", "u", "n", "d", "s">>
S_Invalid_order == <<"I", "n", "v", "a", "l", "i", "d", " ", "o", "r", "d", "e", "r">>
S_Market_closed == <<"M", "a", "r", "k", "e", "t", " ", "c", "l", "o", "s", "e", "d">>
S_Request_ == <<"R", "e", "q", "u", "e", "s", "t", " ">>
S_venue_ == <<"v", "e", "n", "u", "e", ":", " ">>
S__retry_later == <<" ", "(", "r", "e", "t", "r", "y", " ", "l", "a", "t", "e", "r", ")">>
S__for_BTCUSD == <<" ", "f", "o", "r", " ", "B", "T", "C", "U", "S", "D">>
S_Invalid_decision_ID ==
    <<"I", "n", "v", "a", "l", "i", "d", " ", "d", "e", "c", "i", "s", "i", "o", "n", " ", "I",
      "D", ":", " ", "i", "n", "v", "a", "l", "i", "d", " ", "c", "h", "a", "r", "a", "c", "t",
      "e", "r">>
S_Circuit_breaker_open ==
    <<"C", "i", "r", "c", "u", "i", "t", " ", "b", "r", "e", "a", "k", "e", "r", " ", "o", "p",
      "e", "n", " ", "f", "o", "r", " ", "e", "x", "c", "h", "a", "n", "g", "e", ":", " ", "d",
      "e", "f", "a", "u", "l", "t">>
S_Exchange_adapter_not_found ==
    <<"E", "x", "c", "h", "a", "n", "g", "e", " ", "a", "d", "a", "p", "t", "e", "r", " ", "n",
      "o", "t", " ", "f", "o", "u", "n", "d", ":", " ", "d", "e", "f", "a", "u", "l", "t">>
S_Mock_order_placement_failure ==
    <<"M", "o", "c", "k", " ", "o", "r", "d", "e", "r", " ", "p", "l", "a", "c", "e", "m", "e",
      "n", "t", " ", "f", "a", "i", "l", "u", "r", "e">>
S_Mock_order_cancellation_failure ==
    <<"M", "o", "c", "k", " ", "o", "r", "d", "e", "r", " ", "c", "a", "n", "c", "e", "l", "l",
      "a", "t", "i", "o", "n", " ", "f", "a", "i", "l", "u", "r", "e">>
S_Order_not_found == <<"O", "r", "d", "e", "r", " ", "n", "o", "t", " ", "f", "o", "u", "n", "d">>
S_Position_size_too_large ==
    <<"P", "o", "s", "i", "t", "i", "o", "n", " ", "s", "i", "z", "e", " ", "t", "o", "o", " ",
      "l", "a", "r", "g", "e">>
S_connection_reset ==
    <<"c", "o", "n", "n", "e", "c", "t", "i", "o", "n", " ", "r", "e", "s", "e", "t">>

\* str::contains: the pattern occurs in the string, character for character
Contains(str, pattern) ==
    \E i \in 0..(Len(str) - Len(pattern)) :
        SubSeq(str, i + 1, i + Len(pattern)) = pattern

\* ------------------------------------------------------- TradingError
\* The variants of TradingError, each with the text it carries
ExecutionError(message) == [variant |-> "ExecutionError", message |-> message]
NetworkError(message) == [variant |-> "NetworkError", message |-> message]
RiskLimitError(limit) == [variant |-> "RiskLimitError", message |-> limit]
DataError(source) == [variant |-> "DataError", message |-> source]
SerializationError(message) == [variant |-> "SerializationError", message |-> message]

\* The errors of the gateway's pipeline are named by a short text; this is
\* the TradingError each of them stands for
TradingError(e) ==
    CASE e = "ExecutionError: Invalid decision ID" -> ExecutionError(S_Invalid_decision_ID)
      [] e = "ExecutionError: Circuit breaker open" -> ExecutionError(S_Circuit_breaker_open)
      [] e = "ExecutionError: Exchange adapter not found" ->
            ExecutionError(S_Exchange_adapter_not_found)
      [] e = "ExecutionError: Mock order placement failure" ->
            ExecutionError(S_Mock_order_placement_failure)
      [] e = "ExecutionError: Mock order cancellation failure" ->
            ExecutionError(S_Mock_order_cancellation_failure)
      [] e = "ExecutionError: Order not found" -> ExecutionError(S_Order_not_found)
      [] e = "ExecutionError: timeout" -> ExecutionError(S_Request_ \o S_timeout)
      [] e = "ExecutionError: insufficient funds" -> ExecutionError(S_insufficient_funds)

\* ------------------------------------------------------------- variables
VARIABLES
    now,                  \* wall clock (Utc::now / SystemTime::now)
    exchange_adapters,    \* venue -> the adapter registered for it
    circuit_breakers,     \* venue -> CircuitBreaker
    active_orders,        \* client id -> OrderExecution
    order_deduplication,  \* client id -> order id
    next_order_id,        \* Uuid::new_v4 mints a fresh order id
    pc,                   \* where each place_order task stands
    dec,                  \* the decision the task was called with
    oid,                  \* the order id the task minted (0: none)
    attempt,              \* the loop variable of execute_order_with_retry
    ret,                  \* the result the task holds, then returns
    invocations,          \* adapter place_order invocations the task has made
    reaped,               \* client id -> times the janitor has removed it
    blocked_since,        \* last failure that left failure_count >= threshold
    orders,               \* OrderManager.orders: order id -> OrderLifecycle
    client_id_mapping,    \* OrderManager.client_id_mapping
    om_last,              \* the last OrderManager call and what it returned
    helpers,              \* where the janitor, the registrar and the canceller of the gateway stand
    om_threads,           \* thread -> the OrderManager call it is in and the locks it holds
    retry_logic,          \* the gateway's RetryLogic
    delay_last,           \* the last calculate_delay call and what it returned
    cb_last,              \* the last CircuitBreaker call and what it returned
    failures_since_success, \* record_failure calls since the last record_success
    probe_failed_at,      \* when a failure was last recorded in HalfOpen
    is_open_state,        \* thread -> the mode is_open read, while it waits to write HalfOpen
    sweep_last,           \* what the janitor removed and kept, when the last call was a sweep
    policy_last,          \* the last determine_retry_policy call and what it returned
    api_last,             \* the response of the HTTP handler, when the last call returned one
    cancelled,            \* order id -> where its place_order stood when cancel_order returned Ok
    sleep_last            \* the sleep of the retry loop a place_order call is in

gwvars == <<now, exchange_adapters, circuit_breakers, active_orders,
            order_deduplication, next_order_id, pc, dec, oid, attempt, ret,
            invocations, reaped, blocked_since>>
omvars == <<orders, client_id_mapping, om_last>>
rlvars == <<retry_logic, delay_last, policy_last>>
cbvars == <<cb_last, failures_since_success, probe_failed_at, is_open_state>>
apivars == <<api_last, cancelled, sleep_last>>
vars == <<gwvars, helpers, omvars, om_threads, rlvars, cbvars, sweep_last, apivars>>

\* ---------------------------------------------------------- HashMap
EmptyMap == <<>>
\* HashMap::insert
Insert(m, k, v) == [x \in DOMAIN m \cup {k} |-> IF x = k THEN v ELSE m[x]]
\* HashMap::remove of every key in ks
Remove(m, ks) == [x \in DOMAIN m \ ks |-> m[x]]

\* the claim of breaker monotonicity bars admission while this holds
Blocked == blocked_since # None /\ now - Unwrap(blocked_since) < recovery_timeout

\* ------------------------------------------------------ circuit breaker
\* CircuitBreaker::new
NewCircuitBreaker(failure_threshold) ==
    [failure_threshold |-> failure_threshold, state |-> "Closed",
     failure_count |-> 0, last_failure_time |-> 0]

\* a breaker that lets a request through as soon as the recovery timeout is
\* reached
RecoveryElapsedAtTimeout(cb, t) == t - cb.last_failure_time >= recovery_timeout

RecoveryElapsed(cb, t) == t - cb.last_failure_time > recovery_timeout

\* CircuitBreaker::is_open: the value returned
is_open(cb, t) == cb.state = "Open" /\ ~RecoveryElapsed(cb, t)

\* CircuitBreaker::is_open: the breaker after the call
after_is_open(cb, t) ==
    IF cb.state = "Open" /\ RecoveryElapsed(cb, t)
    THEN [cb EXCEPT !.state = "HalfOpen"]
    ELSE cb

\* a breaker that forgets the failures only when it leaves HalfOpen
record_success_keeping(cb) ==
    IF cb.state = "Closed" THEN cb ELSE [cb EXCEPT !.state = "Closed", !.failure_count = 0]

\* CircuitBreaker::record_success
record_success(cb) ==
    CASE cb.state = "HalfOpen" -> [cb EXCEPT !.state = "Closed", !.failure_count = 0]
      [] cb.state = "Closed" -> [cb EXCEPT !.failure_count = 0]
      [] cb.state = "Open" -> [cb EXCEPT !.state = "Closed", !.failure_count = 0]

\* a breaker that opens one failure after the threshold
record_failure_late(cb, t) ==
    [cb EXCEPT !.state = IF cb.state = "Closed" /\ cb.failure_count + 1 <= cb.failure_threshold
                         THEN "Closed" ELSE "Open",
               !.failure_count = cb.failure_count + 1,
               !.last_failure_time = t]

\* CircuitBreaker::record_failure
record_failure(cb, t) ==
    LET failure_count == cb.failure_count + 1
        state == CASE cb.state = "Closed" ->
                        IF failure_count >= cb.failure_threshold
                        THEN "Open" ELSE "Closed"
                   [] cb.state = "HalfOpen" -> "Open"
                   [] cb.state = "Open" -> "Open"
    IN [cb EXCEPT !.state = state, !.failure_count = failure_count,
                  !.last_failure_time = t]

\* a retry loop that runs one turn too many
LastAttemptLate(k) == k = max_retries + 1

\* ------------------------------------------------------- retry policy
\* the loop `for attempt in 0..=max_retries` ends with the attempt that
\* satisfies `attempt == self.config.max_retries`
LastAttempt(k) == k = max_retries

\* the width of u64, scaled down: unsigned arithmetic is modulo 2^WordBits
WordBits == 8

RECURSIVE Pow2(_)
Pow2(e) == IF e = 0 THEN 1 ELSE 2 * Pow2(e - 1)

\* an unsigned result x that may not fit the word: with overflow checks (a
\* debug build) the operation panics, None; without (a release build) it wraps
Checked(x, overflow_checks) ==
    IF x < Pow2(WordBits) THEN Some(x)
    ELSE IF overflow_checks THEN None
    ELSE Some(x % Pow2(WordBits))

\* RetryLogic::new
NewRetryLogic(retries, base_delay_ms, max_delay_ms) ==
    [max_retries |-> retries, base_delay_ms |-> base_delay_ms,
     max_delay_ms |-> max_delay_ms]

BaseDelays == {1, 4, 10}
MaxDelays == {8, 40}
RetryLogics == {NewRetryLogic(max_retries, b, m) : b \in BaseDelays, m \in MaxDelays}
\* the attempt indices calculate_delay is called with
Attempts == 0..(WordBits + 1)

\* calculate_delay: base_delay_ms * 2_u64.pow(k.saturating_sub(1))
exponential_delay(rl, k, overflow_checks) ==
    LET exp == IF k = 0 THEN 0 ELSE k - 1
        pow == Checked(Pow2(exp), overflow_checks)
    IN IF pow = None THEN None
       ELSE Checked(rl.base_delay_ms * Unwrap(pow), overflow_checks)

\* calculate_delay: exponential_delay.min(self.max_delay_ms)
capped_delay(rl, k, overflow_checks) ==
    LET exponential == exponential_delay(rl, k, overflow_checks)
    IN IF exponential = None THEN None
       ELSE IF Unwrap(exponential) < rl.max_delay_ms THEN exponential
       ELSE Some(rl.max_delay_ms)

\* calculate_delay: the draws of rng.gen_range(0..=jitter_range * 2)
Jitters(rl, k, overflow_checks) ==
    LET capped == capped_delay(rl, k, overflow_checks)
    IN IF k = 0 \/ capped = None THEN {0}
       ELSE 0..((Unwrap(capped) \div 4) * 2)

\* RetryLogic::calculate_delay with the draw `jitter`: Some(delay), or None
\* when it panics
calculate_delay(rl, k, jitter, overflow_checks) ==
    IF k = 0 THEN Some(0)
    ELSE LET capped == capped_delay(rl, k, overflow_checks)
         IN IF capped = None THEN None
            ELSE LET jitter_range == Unwrap(capped) \div 4
                 IN IF Unwrap(capped) >= jitter_range
                    THEN Checked(Unwrap(capped) - jitter_range + jitter, overflow_checks)
                    ELSE Checked(Unwrap(capped) + jitter, overflow_checks)

\* determine_retry_policy
determine_retry_policy(error) ==
    CASE error.variant = "NetworkError" -> "ExponentialBackoff"
      [] error.variant = "ExecutionError" ->
            IF \/ Contains(error.message, S_timeout)
               \/ Contains(error.message, S_rate_limit)
               \/ Contains(error.message, S_temporary)
               \/ Contains(error.message, S_service_unavailable)
            THEN "ExponentialBackoff"
            ELSE IF \/ Contains(error.message, S_insufficient_funds)
                    \/ Contains(error.message, S_invalid_order)
                    \/ Contains(error.message, S_market_closed)
            THEN "NoRetry"
            ELSE "ExponentialBackoff"
      [] error.variant = "RiskLimitError" -> "NoRetry"
      [] error.variant = "DataError" -> "ExponentialBackoff"
      [] error.variant = "SerializationError" -> "NoRetry"

\* the errors the classification is given: venue execution errors whose
\* message is a phrase, alone or inside a longer text, and errors of the other
\* variants
Phrases ==
    {S_timeout, S_rate_limit, S_temporary, S_service_unavailable,
     S_insufficient_funds, S_invalid_order, S_market_closed,
     S_Insufficient_funds, S_Invalid_order, S_Market_closed,
     S_Mock_order_placement_failure, S_connection_reset}
Prefixes == {<<>>, S_Request_, S_venue_}
Suffixes == {<<>>, S__retry_later, S__for_BTCUSD}
Texts == {S_timeout, S_insufficient_funds, S_Position_size_too_large}
PolicyErrors ==
    {ExecutionError(a \o b \o c) : a \in Prefixes, b \in Phrases, c \in Suffixes}
    \cup {NetworkError(m) : m \in Texts} \cup {RiskLimitError(m) : m \in Texts}
    \cup {DataError(m) : m \in Texts} \cup {SerializationError(m) : m \in Texts}

\* ------------------------------------------------------------ gateway
\* ExecutionResult::new
NewExecutionResult(decision_id, order_id) ==
    [decision_id |-> decision_id, order_id |-> order_id, status |-> "Pending",
     filled_quantity |-> 0, average_price |-> None, commission |-> 0,
     retry_count |-> 0]

\* a lookup that does not find the order a duplicate call asks for
get_order_result_missing(order_id) == Err("ExecutionError: Order not found")

\* ExecutionGateway::get_order_result: what a duplicate call is answered
get_order_result(order_id) == Ok(NewExecutionResult("placeholder", order_id))

\* OrderExecution as place_order first stores it
NewOrderExecution(order_id, t) ==
    [order_id |-> order_id, status |-> "Pending", updated_at |-> t,
     partial_fills |-> <<>>, total_filled |-> 0, average_price |-> None]

\* the PartialFill built from an adapter's fill map, with the defaults of
\* unwrap_or
ParseFill(fd) ==
    [fill_id |-> IF fd.fill_id = NONE THEN "unknown" ELSE fd.fill_id,
     quantity |-> IF fd.quantity = None THEN 0 ELSE Unwrap(fd.quantity),
     price |-> IF fd.price = None THEN 0 ELSE Unwrap(fd.price)]

RECURSIVE TotalQuantity(_)
TotalQuantity(fills) ==
    IF fills = <<>> THEN 0 ELSE Head(fills).quantity + TotalQuantity(Tail(fills))

RECURSIVE WeightedSum(_)
WeightedSum(fills) ==
    IF fills = <<>> THEN 0
    ELSE Head(fills).quantity * Head(fills).price + WeightedSum(Tail(fills))

\* a fill handler that overwrites the running total instead of adding to it
ApplyFillOverwrite(o, fd) ==
    LET pf == ParseFill(fd)
    IN [o EXCEPT !.partial_fills = Append(@, pf), !.total_filled = pf.quantity]

\* one turn of the loop of handle_partial_fills; an average price is the
\* fraction num/den
ApplyFill(o, fd) ==
    LET pf == ParseFill(fd)
        fills == Append(o.partial_fills, pf)
    IN [o EXCEPT !.partial_fills = fills,
                 !.total_filled = @ + pf.quantity,
                 !.average_price =
                     IF @ = None THEN Some([num |-> pf.price, den |-> 1])
                     ELSE Some([num |-> WeightedSum(fills), den |-> TotalQuantity(fills)])]

RECURSIVE ApplyFills(_, _)
ApplyFills(o, fds) ==
    IF fds = <<>> THEN o ELSE ApplyFills(ApplyFill(o, Head(fds)), Tail(fds))

\* ExecutionGateway::handle_partial_fills on the tracked order
handle_partial_fills(o, fds, t) == [ApplyFills(o, fds) EXCEPT !.updated_at = t]

\* a status update that takes a failed order for one still pending
StatusOfPending(r) == IF r.ok THEN r.value.status ELSE "Pending"

\* the status update_order_status stores for a result
StatusOf(r) == IF r.ok THEN r.value.status ELSE "Failed"

TerminalExecutionStatus == {"Filled", "Cancelled", "Rejected", "Failed"}

\* a janitor that removes every old order, whatever its status
ToRemoveOld(max_age) ==
    {c \in DOMAIN active_orders : active_orders[c].updated_at < now - max_age}

\* the orders cleanup_completed_orders pushes to to_remove
ToRemove(max_age) ==
    {c \in DOMAIN active_orders :
        /\ active_orders[c].updated_at < now - max_age
        /\ active_orders[c].status \in TerminalExecutionStatus}

\* get_active_orders_count
ActiveOrdersCount == Cardinality(DOMAIN active_orders)

\* ExecutionGateway::new leaves both maps empty; register_exchange_adapter
\* inserts the adapter and a new breaker for the venue
Registrations ==
    {EmptyMap} \cup {[v \in {exchange_name} |-> a] : a \in AdapterKinds}

\* the tasks beside place_order: none is in a call
HelpersIdle == [janitor |-> "idle", registrar |-> "idle", canceller |-> "idle",
                exchange_name |-> NONE]

GwInitWith(registrations) ==
    /\ now = 0
    /\ exchange_adapters \in registrations
    /\ \E n \in FailureThresholds :
          circuit_breakers = [v \in DOMAIN exchange_adapters |-> NewCircuitBreaker(n)]
    /\ active_orders = EmptyMap
    /\ order_deduplication = EmptyMap
    /\ next_order_id = 1
    /\ pc = [t \in Tasks |-> "idle"]
    /\ dec = [t \in Tasks |-> NONE]
    /\ oid = [t \in Tasks |-> 0]
    /\ attempt = [t \in Tasks |-> 0]
    /\ ret = [t \in Tasks |-> None]
    /\ invocations = [t \in Tasks |-> 0]
    /\ reaped = [c \in ValidDecisions |-> 0]
    /\ blocked_since = None
    /\ helpers = HelpersIdle

GwInit == GwInitWith(Registrations)

\* place_order is called with decision d: Uuid::parse_str of its decision_id,
\* then the block under order_deduplication.read()
PlaceOrder(t, d) ==
    /\ pc[t] = "idle"
    /\ dec' = [dec EXCEPT ![t] = d]
    /\ IF d \notin ValidDecisions
       THEN /\ ret' = [ret EXCEPT ![t] = Err("ExecutionError: Invalid decision ID")]
            /\ pc' = [pc EXCEPT ![t] = "done"]
       ELSE IF d \in DOMAIN order_deduplication
       THEN /\ ret' = [ret EXCEPT ![t] = get_order_result(order_deduplication[d])]
            /\ pc' = [pc EXCEPT ![t] = "done"]
       ELSE /\ pc' = [pc EXCEPT ![t] = "dedup_insert"]
            /\ UNCHANGED ret
    /\ UNCHANGED <<now, exchange_adapters, circuit_breakers, active_orders,
                   order_deduplication, next_order_id, oid, attempt, invocations,
                   reaped, blocked_since>>

\* place_order: Uuid::new_v4 and the block under order_deduplication.write()
DedupInsert(t) ==
    /\ pc[t] = "dedup_insert"
    /\ oid' = [oid EXCEPT ![t] = next_order_id]
    /\ next_order_id' = next_order_id + 1
    /\ order_deduplication' = Insert(order_deduplication, dec[t], next_order_id)
    /\ pc' = [pc EXCEPT ![t] = "active_insert"]
    /\ UNCHANGED <<now, exchange_adapters, circuit_breakers, active_orders, dec,
                   attempt, ret, invocations, reaped, blocked_since>>

\* place_order, the block under active_orders.write()
ActiveInsert(t) ==
    /\ pc[t] = "active_insert"
    /\ active_orders' = Insert(active_orders, dec[t], NewOrderExecution(oid[t], now))
    /\ pc' = [pc EXCEPT ![t] = "cb_check"]
    /\ UNCHANGED <<now, exchange_adapters, circuit_breakers, order_deduplication,
                   next_order_id, dec, oid, attempt, ret, invocations, reaped,
                   blocked_since>>

\* execute_order_with_retry: a turn of the loop begins (after the sleep, if
\* it is a retry) with the block under circuit_breakers.read(); when the
\* breaker admits the request execute_single_order calls adapter.place_order
CheckBreaker(t) ==
    LET has_cb == exchange_name \in DOMAIN circuit_breakers
        cb == circuit_breakers[exchange_name]
    IN
    /\ pc[t] \in {"cb_check", "backoff"}
    /\ IF has_cb /\ is_open(cb, now)
       THEN /\ ret' = [ret EXCEPT ![t] = Err("ExecutionError: Circuit breaker open")]
            /\ pc' = [pc EXCEPT ![t] = "update_status"]
            /\ UNCHANGED <<circuit_breakers, invocations>>
       ELSE /\ circuit_breakers' =
                  IF ~has_cb THEN circuit_breakers
                  ELSE [circuit_breakers EXCEPT ![exchange_name] = after_is_open(cb, now)]
            /\ IF exchange_name \notin DOMAIN exchange_adapters
               THEN /\ ret' = [ret EXCEPT ![t] =
                          Err("ExecutionError: Exchange adapter not found")]
                    /\ pc' = [pc EXCEPT ![t] = "record"]
                    /\ UNCHANGED invocations
               ELSE /\ invocations' = [invocations EXCEPT ![t] = @ + 1]
                    /\ pc' = [pc EXCEPT ![t] = "inflight"]
                    /\ UNCHANGED ret
    /\ UNCHANGED <<now, exchange_adapters, active_orders, order_deduplication,
                   next_order_id, dec, oid, attempt, reaped, blocked_since>>

\* execute_order_with_retry: the match on the attempt's result r, under
\* circuit_breakers.write()
\* a loop that returns the result as execute_single_order made it
stamp_nothing(exec_result, k) == exec_result

\* execute_order_with_retry: exec_result.retry_count = attempt
stamp_retry_count(exec_result, k) == [exec_result EXCEPT !.retry_count = k]

Record(t, r) ==
    LET has_cb == exchange_name \in DOMAIN circuit_breakers
        cb == circuit_breakers[exchange_name]
        failed == record_failure(cb, now)
    IN
    IF r.ok
    THEN /\ circuit_breakers' =
               IF ~has_cb THEN circuit_breakers
               ELSE [circuit_breakers EXCEPT ![exchange_name] = record_success(cb)]
         /\ ret' = [ret EXCEPT ![t] = Ok(stamp_retry_count(r.value, attempt[t]))]
         /\ pc' = [pc EXCEPT ![t] = "update_status"]
         /\ UNCHANGED <<blocked_since, attempt>>
    ELSE /\ circuit_breakers' =
               IF ~has_cb THEN circuit_breakers
               ELSE [circuit_breakers EXCEPT ![exchange_name] = failed]
         /\ blocked_since' =
               IF ~has_cb THEN blocked_since
               ELSE IF failed.failure_count >= failed.failure_threshold
                    THEN Some(now)
               ELSE IF Blocked THEN Some(now)
               ELSE blocked_since
         /\ IF LastAttempt(attempt[t])
            THEN /\ pc' = [pc EXCEPT ![t] = "update_status"]
                 /\ ret' = [ret EXCEPT ![t] = r]
                 /\ UNCHANGED attempt
            ELSE /\ pc' = [pc EXCEPT ![t] = "backoff"]
                 /\ ret' = [ret EXCEPT ![t] = None]
                 /\ attempt' = [attempt EXCEPT ![t] = @ + 1]

\* the ExecutionResult execute_single_order builds from the adapter's answer
ExecutionResultOf(t, a) ==
    [NewExecutionResult(dec[t], oid[t]) EXCEPT
        !.status = a.status,
        !.filled_quantity = a.filled_quantity,
        !.average_price = a.average_price,
        !.commission = a.commission]

\* execute_single_order: adapter.place_order returns a; fills it reports are
\* applied by handle_partial_fills under active_orders.write(), otherwise
\* the result goes to the match of execute_order_with_retry
AdapterRespond(t) ==
    /\ pc[t] = "inflight"
    /\ \E a \in AdapterPlaceOrder(exchange_adapters[exchange_name], dec[t]) :
         IF a.ok /\ enable_partial_fills /\ Len(a.value.partial_fills) > 0
         THEN /\ active_orders' =
                    IF dec[t] \notin DOMAIN active_orders THEN active_orders
                    ELSE [active_orders EXCEPT ![dec[t]] =
                             handle_partial_fills(@, a.value.partial_fills, now)]
              /\ ret' = [ret EXCEPT ![t] = Ok(ExecutionResultOf(t, a.value))]
              /\ pc' = [pc EXCEPT ![t] = "record"]
              /\ UNCHANGED <<circuit_breakers, blocked_since, attempt>>
         ELSE /\ Record(t, IF a.ok THEN Ok(ExecutionResultOf(t, a.value)) ELSE a)
              /\ UNCHANGED active_orders
    /\ UNCHANGED <<now, exchange_adapters, order_deduplication, next_order_id, dec,
                   oid, invocations, reaped>>

\* execute_order_with_retry: the match on the result, after fills were applied
\* or the adapter was not found
RecordResult(t) ==
    /\ pc[t] = "record"
    /\ Record(t, ret[t])
    /\ UNCHANGED <<now, exchange_adapters, active_orders, order_deduplication,
                   next_order_id, dec, oid, invocations, reaped>>

\* update_order_status under active_orders.write(), and place_order returns
UpdateOrderStatus(t) ==
    /\ pc[t] = "update_status"
    /\ active_orders' =
         IF dec[t] \notin DOMAIN active_orders THEN active_orders
         ELSE [active_orders EXCEPT ![dec[t]] =
                  [@ EXCEPT !.status = StatusOf(ret[t]), !.updated_at = now]]
    /\ pc' = [pc EXCEPT ![t] = "done"]
    /\ UNCHANGED <<now, exchange_adapters, circuit_breakers, order_deduplication,
                   next_order_id, dec, oid, attempt, ret, invocations, reaped,
                   blocked_since>>

\* cleanup_completed_orders, holding active_orders.write() and
\* order_deduplication.write()
CleanupCompletedOrders(max_age_hours) ==
    LET to_remove == ToRemove(max_age_hours) IN
    /\ active_orders' = Remove(active_orders, to_remove)
    /\ order_deduplication' = Remove(order_deduplication, to_remove)
    /\ reaped' = [c \in ValidDecisions |-> IF c \in to_remove THEN reaped[c] + 1 ELSE reaped[c]]
    /\ UNCHANGED <<now, exchange_adapters, circuit_breakers, next_order_id, pc, dec,
                   oid, attempt, ret, invocations, blocked_since>>

\* the wall clock advances, up to the bound
Tick(bound) ==
    /\ now < bound
    /\ now' = now + 1
    /\ UNCHANGED <<exchange_adapters, circuit_breakers, active_orders,
                   order_deduplication, next_order_id, pc, dec, oid, attempt, ret,
                   invocations, reaped, blocked_since>>

\* the gateway's locks
Locks == {"exchange_adapters", "circuit_breakers", "active_orders", "order_deduplication"}

\* a call that keeps the adapter table's read guard over the backoff sleep
HoldsOverBackoff(t) ==
    IF pc[t] \in {"inflight", "backoff"} THEN {"exchange_adapters"} ELSE {}

\* the locks call t holds where it stands. Every block of place_order and of
\* the retry loop releases its guard before the next await; only
\* execute_single_order keeps the read guard `adapters` until it returns, that
\* is, over the adapter's place_order
Holds(t) == IF pc[t] = "inflight" THEN {"exchange_adapters"} ELSE {}

\* the venue names adapters are registered under
Venues == {exchange_name, "backup"}

\* the adapters register_exchange_adapter is called with: the mock as it is
\* and the mock that fills in part
RegisteredKinds == {"filling", "filling in part"}

\* GatewayConfig.circuit_breaker_failure_threshold: the threshold of the
\* breakers the gateway has made, any of the configurations when it has made
\* none
ConfiguredThresholds ==
    IF circuit_breakers = EmptyMap THEN FailureThresholds
    ELSE {circuit_breakers[v].failure_threshold : v \in DOMAIN circuit_breakers}

\* tokio's RwLock on the adapter table: a reader is let in unless a writer
\* holds the lock or waits for it; the writer is let in when no reader holds it
AdaptersReadable == helpers.registrar = "idle"
AdaptersWritable ==
    /\ helpers.canceller = "idle"
    /\ \A t \in Tasks : "exchange_adapters" \notin Holds(t)

\* the lock on the active-order table is free between the critical sections
\* of place_order unless the janitor holds it
ActiveOrdersAvailable == helpers.janitor = "idle"

\* the breaker check of call t returns before the adapter table is looked at
BreakerDenies ==
    /\ exchange_name \in DOMAIN circuit_breakers
    /\ is_open(circuit_breakers[exchange_name], now)

\* the adapter's answer to call t may carry fills, which handle_partial_fills
\* records under the write lock of active_orders
NeedsActiveOrders(t) ==
    /\ pc[t] = "inflight"
    /\ \E a \in AdapterPlaceOrder(exchange_adapters[exchange_name], dec[t]) :
          a.ok /\ enable_partial_fills /\ Len(a.value.partial_fills) > 0

\* a registration that keeps the breaker a venue already has
insert_breaker_if_absent(breakers, name, failure_threshold) ==
    IF name \in DOMAIN breakers THEN breakers
    ELSE Insert(breakers, name, NewCircuitBreaker(failure_threshold))

\* register_exchange_adapter: circuit_breakers.insert(exchange_name,
\* CircuitBreaker::new(..))
insert_breaker(breakers, name, failure_threshold) ==
    Insert(breakers, name, NewCircuitBreaker(failure_threshold))

\* cleanup_completed_orders: active_orders.write()
JanitorLock ==
    /\ helpers.janitor = "idle"
    /\ helpers' = [helpers EXCEPT !.janitor = "sweeping"]
    /\ UNCHANGED gwvars

\* cleanup_completed_orders: order_deduplication.write(), the sweep, and
\* both guards dropped
JanitorSweep(max_age_hours) ==
    /\ helpers.janitor = "sweeping"
    /\ CleanupCompletedOrders(max_age_hours)
    /\ helpers' = [helpers EXCEPT !.janitor = "idle"]

\* register_exchange_adapter is called and asks for the write lock of the
\* adapter table
RegistrarCall(name) ==
    /\ helpers.registrar = "idle"
    /\ helpers' = [helpers EXCEPT !.registrar = "waiting", !.exchange_name = name]
    /\ UNCHANGED gwvars

\* register_exchange_adapter: adapters.insert under the write lock
RegistrarInsertAdapter(adapter) ==
    /\ helpers.registrar = "waiting"
    /\ AdaptersWritable
    /\ exchange_adapters' = Insert(exchange_adapters, helpers.exchange_name, adapter)
    /\ helpers' = [helpers EXCEPT !.registrar = "inserting"]
    /\ UNCHANGED <<now, circuit_breakers, active_orders, order_deduplication,
                   next_order_id, pc, dec, oid, attempt, ret, invocations, reaped,
                   blocked_since>>

\* register_exchange_adapter: circuit_breakers.insert of a new breaker, and
\* both guards dropped
RegistrarInsertBreaker ==
    /\ helpers.registrar = "inserting"
    /\ \E n \in ConfiguredThresholds :
          circuit_breakers' = insert_breaker(circuit_breakers, helpers.exchange_name, n)
    /\ helpers' = [helpers EXCEPT !.registrar = "idle", !.exchange_name = NONE]
    /\ UNCHANGED <<now, exchange_adapters, active_orders, order_deduplication,
                   next_order_id, pc, dec, oid, attempt, ret, invocations, reaped,
                   blocked_since>>

\* cancel_order or get_order_status: the read guard of the adapter table is
\* taken and the adapter called
CancellerCall ==
    /\ helpers.canceller = "idle"
    /\ AdaptersReadable
    /\ exchange_name \in DOMAIN exchange_adapters
    /\ helpers' = [helpers EXCEPT !.canceller = "inflight"]
    /\ UNCHANGED gwvars

\* the adapter answers cancel_order or get_order_status
CancellerReturn ==
    /\ helpers.canceller = "inflight"
    /\ helpers' = [helpers EXCEPT !.canceller = "idle"]
    /\ UNCHANGED gwvars

\* ------------------------------------------------------ order manager
OrderIds == {"o1", "o2"}
\* the client ids create_order is called with
ClientIds == {"d1"}

OrderLifecycleState ==
    {"Created", "Validated", "Submitted", "Acknowledged", "PartiallyFilled",
     "Filled", "Cancelled", "Rejected", "Expired", "Failed"}

\* OrderManager::is_terminal_state
is_terminal_state(state) ==
    state \in {"Filled", "Cancelled", "Rejected", "Expired", "Failed"}

\* a table that lets a submitted order stay open past its expiry
valid_transitions_no_expiry(from_state) ==
    CASE from_state = "Created" -> {"Validated", "Rejected", "Failed"}
      [] from_state = "Validated" -> {"Submitted", "Rejected", "Failed"}
      [] from_state = "Submitted" -> {"Acknowledged", "Rejected", "Failed"}
      [] from_state = "Acknowledged" ->
            {"PartiallyFilled", "Filled", "Cancelled", "Rejected", "Failed", "Expired"}
      [] from_state = "PartiallyFilled" -> {"Filled", "Cancelled", "Failed", "Expired"}
      [] OTHER -> {}

\* the vector validate_state_transition matches from_state to
valid_transitions(from_state) ==
    CASE from_state = "Created" -> {"Validated", "Rejected", "Failed"}
      [] from_state = "Validated" -> {"Submitted", "Rejected", "Failed"}
      [] from_state = "Submitted" -> {"Acknowledged", "Rejected", "Failed", "Expired"}
      [] from_state = "Acknowledged" ->
            {"PartiallyFilled", "Filled", "Cancelled", "Rejected", "Failed", "Expired"}
      [] from_state = "PartiallyFilled" -> {"Filled", "Cancelled", "Failed", "Expired"}
      [] from_state \in {"Filled", "Cancelled", "Rejected", "Expired", "Failed"} -> {}

Unit == <<>>
InvalidTransition == "ExecutionError: Invalid state transition"
OrderNotFound == "ExecutionError: Order not found"

\* a validation that lets every transition through
validate_nothing(from_state, to_state) == Ok(Unit)

\* OrderManager::validate_state_transition
validate_state_transition(from_state, to_state) ==
    IF to_state \in valid_transitions(from_state) THEN Ok(Unit)
    ELSE Err(InvalidTransition)

\* the OrderLifecycle create_order builds; symbol, created_at, expires_at and
\* metadata, which no operation below reads, are left out, as are the
\* timestamp and the reason of a transition
NewOrderLifecycle(order_id, client_id, t) ==
    [order_id |-> order_id, client_id |-> client_id, state |-> "Created",
     state_history |-> <<>>, updated_at |-> t]

\* what the last OrderManager call was and what it returned
Call(op, order_id, new_state, from_state, result) ==
    Some([op |-> op, order_id |-> order_id, new_state |-> new_state,
          from_state |-> from_state, result |-> result])

\* a thread that is in no OrderManager call
Idle == [op |-> "idle", order_id |-> NONE, client_id |-> NONE, max_age_hours |-> 0,
         holds |-> {}]

OmInit ==
    /\ orders = EmptyMap
    /\ client_id_mapping = EmptyMap
    /\ om_last = None
    /\ om_threads = [t \in Tasks |-> Idle]

\* OrderManager::create_order
CreateOrder(order_id, client_id) ==
    /\ orders' = Insert(orders, order_id, NewOrderLifecycle(order_id, client_id, now))
    /\ client_id_mapping' = Insert(client_id_mapping, client_id, order_id)
    /\ om_last' = Call("create_order", order_id, NONE, None, Ok(Unit))

\* a transition that moves the state and forgets to record it
PushTransitionUnrecorded(lifecycle, new_state, t) ==
    [lifecycle EXCEPT !.state = new_state, !.updated_at = t]

\* transition_state: the StateTransition is pushed to the history, then the
\* state and updated_at are set, all under orders.write()
PushTransition(lifecycle, new_state, t) ==
    [lifecycle EXCEPT
        !.state_history =
            Append(@, [from_state |-> lifecycle.state, to_state |-> new_state]),
        !.state = new_state,
        !.updated_at = t]

\* OrderManager::transition_state
\* a transition_state that records the transition before it validates it
TransitionStateEager(order_id, new_state) ==
    IF order_id \notin DOMAIN orders
    THEN /\ om_last' = Call("transition_state", order_id, new_state, None,
                            Err(OrderNotFound))
         /\ UNCHANGED <<orders, client_id_mapping>>
    ELSE LET lifecycle == orders[order_id]
         IN /\ om_last' = Call("transition_state", order_id, new_state,
                               Some(lifecycle.state),
                               validate_state_transition(lifecycle.state, new_state))
            /\ orders' = [orders EXCEPT ![order_id] =
                             PushTransition(lifecycle, new_state, now)]
            /\ UNCHANGED client_id_mapping

TransitionState(order_id, new_state) ==
    IF order_id \notin DOMAIN orders
    THEN /\ om_last' = Call("transition_state", order_id, new_state, None,
                            Err(OrderNotFound))
         /\ UNCHANGED <<orders, client_id_mapping>>
    ELSE LET lifecycle == orders[order_id]
             valid == validate_state_transition(lifecycle.state, new_state)
         IN /\ om_last' = Call("transition_state", order_id, new_state,
                               Some(lifecycle.state), valid)
            /\ orders' =
                 IF ~valid.ok THEN orders
                 ELSE [orders EXCEPT ![order_id] =
                          PushTransition(lifecycle, new_state, now)]
            /\ UNCHANGED client_id_mapping

\* OrderManager::cleanup_old_orders
CleanupOldOrders(max_age_hours) ==
    LET to_remove == {o \in DOMAIN orders :
                         /\ orders[o].updated_at < now - max_age_hours
                         /\ is_terminal_state(orders[o].state)}
    IN /\ orders' = Remove(orders, to_remove)
       /\ client_id_mapping' =
            Remove(client_id_mapping, {orders[o].client_id : o \in to_remove})
       /\ om_last' = Call("cleanup_old_orders", NONE, NONE, None,
                          Ok(Cardinality(to_remove)))

\* ExecutionGateway::new builds its RetryLogic from the configuration
RlInit(logics) ==
    /\ retry_logic \in logics
    /\ delay_last = None
    /\ policy_last = None

\* a call of RetryLogic::calculate_delay
CalculateDelay(k, jitter, overflow_checks) ==
    /\ delay_last' = Some([attempt |-> k,
                           delay |-> calculate_delay(retry_logic, k, jitter,
                                                     overflow_checks)])
    /\ UNCHANGED <<retry_logic, policy_last>>

\* OrderManager calls lock by lock. The manager's two tables are behind one
\* RwLock each; a call takes its guards one after the other and lets them go
\* together when it returns
ManagerCalls ==
    {[Idle EXCEPT !.op = "create_order", !.order_id = o, !.client_id = c] :
        o \in OrderIds, c \in ClientIds}
    \cup {[Idle EXCEPT !.op = "cleanup_old_orders", !.max_age_hours = m] : m \in MaxAges}
    \cup {[Idle EXCEPT !.op = "get_order_by_client_id", !.client_id = c] : c \in ClientIds}

NoLock == <<NONE, NONE>>

\* the guard the call takes next, in the order of its `let` statements
NextLock(call) ==
    CASE call.op \in {"create_order", "cleanup_old_orders"} ->
            IF call.holds = {} THEN <<"orders", "write">>
            ELSE IF call.holds = {<<"orders", "write">>}
            THEN <<"client_id_mapping", "write">>
            ELSE NoLock
      [] call.op = "get_order_by_client_id" ->
            IF call.holds = {} THEN <<"client_id_mapping", "read">>
            ELSE IF /\ call.holds = {<<"client_id_mapping", "read">>}
                    /\ call.client_id \in DOMAIN client_id_mapping
            THEN <<"orders", "read">>
            ELSE NoLock
      [] OTHER -> NoLock

\* RwLock: a write guard excludes every other guard, a read guard excludes
\* write guards
Available(t, lock) ==
    \A u \in Tasks \ {t} :
        \A held \in om_threads[u].holds :
            held[1] = lock[1] => (held[2] = "read" /\ lock[2] = "read")

\* thread t calls the manager
OmBegin(t, call) ==
    /\ om_threads[t] = Idle
    /\ om_threads' = [om_threads EXCEPT ![t] = call]
    /\ UNCHANGED omvars

\* thread t is granted the guard it waits for
OmAcquire(t) ==
    LET lock == NextLock(om_threads[t]) IN
    /\ lock # NoLock
    /\ Available(t, lock)
    /\ om_threads' = [om_threads EXCEPT ![t].holds = @ \cup {lock}]
    /\ UNCHANGED omvars

\* thread t, holding every guard of its call, does the call's work and returns
OmReturn(t) ==
    LET call == om_threads[t] IN
    /\ call.op # "idle"
    /\ NextLock(call) = NoLock
    /\ CASE call.op = "create_order" -> CreateOrder(call.order_id, call.client_id)
         [] call.op = "cleanup_old_orders" -> CleanupOldOrders(call.max_age_hours)
         [] call.op = "get_order_by_client_id" ->
               /\ om_last' = Call("get_order_by_client_id", NONE, NONE, None,
                                  Ok(IF call.client_id \in DOMAIN client_id_mapping
                                     THEN Some(client_id_mapping[call.client_id])
                                     ELSE None))
               /\ UNCHANGED <<orders, client_id_mapping>>
    /\ om_threads' = [om_threads EXCEPT ![t] = Idle]

\* ------------------------------------------------------------ HTTP API
\* ExchangeAdapter::cancel_order: what adapter a may answer. The mock ignores
\* the order id; a venue answers as it chooses
AdapterCancelOrder(a) ==
    CASE a = "filling" -> {Ok(Unit)}
      [] a = "failing" -> {Err("ExecutionError: Mock order cancellation failure")}
      [] OTHER -> {Ok(Unit), Err("ExecutionError: timeout")}

\* ExecutionGateway::cancel_order: what the call may return
cancel_order(order_id) ==
    IF exchange_name \notin DOMAIN exchange_adapters
    THEN {Err("ExecutionError: Exchange adapter not found")}
    ELSE AdapterCancelOrder(exchange_adapters[exchange_name])

\* a validation that lets every decision through
validate_anything(d) == Ok(Unit)

\* OrderDecision::validate, for the fields the model carries
validate(d) ==
    IF risk_adjusted_quantity(d) <= 0
    THEN Err("Risk adjusted quantity must be positive")
    ELSE IF entry_price(d) <= 0
    THEN Err("Entry price must be positive")
    ELSE Ok(Unit)

\* the decisions a client may post: those of the pipeline and one whose
\* risk-adjusted quantity is negative
PostedDecisions == Decisions \cup {"neg"}
\* the order ids a client may ask to cancel: Uuid::new_v4 has minted the
\* first, at most, and never the second
CancelledOrderIds == {1, 2}

\* the status and the code of an HTTP response
Response(status, code) == [status |-> status, code |-> code]

\* api::place_order: the response for the gateway's result
PlaceOrderResponse(r) ==
    IF r.ok THEN Response(200, "OK")
    ELSE LET variant == TradingError(r.error).variant
         IN CASE variant = "RiskLimitError" -> Response(403, "RISK_LIMIT_ERROR")
              [] variant = "ExecutionError" -> Response(500, "EXECUTION_ERROR")
              [] variant = "NetworkError" -> Response(502, "NETWORK_ERROR")
              [] variant = "DataError" -> Response(422, "DATA_ERROR")
              [] variant = "SerializationError" -> Response(400, "SERIALIZATION_ERROR")

\* api::cancel_order: the response for the gateway's result
CancelOrderResponse(r) ==
    IF r.ok THEN Response(200, "OK")
    ELSE IF /\ TradingError(r.error).variant = "ExecutionError"
            /\ Contains(TradingError(r.error).message, S_not_found)
    THEN Response(404, "ORDER_NOT_FOUND")
    ELSE Response(500, "CANCELLATION_ERROR")

\* the tracked order with this order id, if there is one
Tracked(order_id) == {c \in DOMAIN active_orders : active_orders[c].order_id = order_id}

\* what the handler answered: the call, its argument, the gateway's maps
\* before it, and the response
Answered(op, request, response) ==
    Some([op |-> op, request |-> request, response |-> response,
          active_orders |-> active_orders,
          order_deduplication |-> order_deduplication,
          invocations |-> invocations])

\* api::place_order: the decision is validated; a valid one goes down
\* gateway.place_order, whose result is answered when it returns
ApiPlaceOrder(t, d) ==
    IF ~validate(d).ok
    THEN /\ api_last' = Answered("place_order", d, Response(400, "VALIDATION_ERROR"))
         /\ UNCHANGED gwvars
    ELSE /\ PlaceOrder(t, d)
         /\ api_last' = IF pc'[t] = "done"
                        THEN Answered("place_order", d, PlaceOrderResponse(ret'[t]))
                        ELSE None

\* api::place_order: gateway.place_order returns and the result is answered
ApiPlaceOrderReturns(t) ==
    /\ UpdateOrderStatus(t)
    /\ api_last' = Answered("place_order", dec[t], PlaceOrderResponse(ret[t]))

\* api::cancel_order and ExecutionGateway::cancel_order: the adapter is asked
\* to cancel and its answer is the result; the gateway's maps are not read
ApiCancelOrder(order_id) ==
    \E r \in cancel_order(order_id) :
        /\ api_last' = Answered("cancel_order", order_id, CancelOrderResponse(r))
        /\ cancelled' =
              IF /\ r.ok
                 /\ order_id \notin DOMAIN cancelled
                 /\ \E c \in Tracked(order_id) :
                       active_orders[c].status \notin TerminalExecutionStatus
              THEN Insert(cancelled, order_id,
                          [pc |-> {pc[t] : t \in {u \in Tasks : oid[u] = order_id}},
                           invocations |-> invocations])
              ELSE cancelled
        /\ UNCHANGED gwvars

\* execute_order_with_retry: after a failed attempt that is not the last the
\* loop sleeps calculate_delay(attempt), attempt being the one that failed
Sleep(t) ==
    IF pc[t] # "backoff" /\ pc'[t] = "backoff"
    THEN \E overflow_checks \in BOOLEAN :
            \E jitter \in Jitters(retry_logic, attempt[t], overflow_checks) :
                sleep_last' = Some([failed_attempt |-> attempt[t],
                                    next_attempt |-> attempt'[t],
                                    delay |-> calculate_delay(retry_logic, attempt[t],
                                                              jitter, overflow_checks)])
    ELSE UNCHANGED sleep_last

\* a call of determine_retry_policy
DetermineRetryPolicy(error) ==
    /\ policy_last' = Some([error |-> error, policy |-> determine_retry_policy(error)])
    /\ UNCHANGED <<retry_logic, delay_last>>

\* nothing has been recorded on the breaker yet
CbInit ==
    /\ cb_last = None
    /\ failures_since_success = 0
    /\ probe_failed_at = None
    /\ is_open_state = [t \in Tasks |-> None]

\* the gateway's fields a call on the breaker leaves alone
gwrest == <<exchange_adapters, active_orders, order_deduplication, next_order_id,
            pc, dec, oid, attempt, ret, invocations, reaped, blocked_since>>

\* what the last call on the venue's breaker was, the breaker before it, the
\* time of the call and the value returned
CbCall(op, before, result) ==
    Some([op |-> op, before |-> before, at |-> now, result |-> result])

\* a task calls CircuitBreaker::is_open on the venue's breaker
IsOpen ==
    LET cb == circuit_breakers[exchange_name] IN
    /\ circuit_breakers' = [circuit_breakers EXCEPT ![exchange_name] = after_is_open(cb, now)]
    /\ cb_last' = CbCall("is_open", cb, is_open(cb, now))
    /\ UNCHANGED <<now, gwrest, is_open_state, failures_since_success, probe_failed_at>>

\* a task calls CircuitBreaker::record_success
RecordSuccess ==
    LET cb == circuit_breakers[exchange_name] IN
    /\ circuit_breakers' = [circuit_breakers EXCEPT ![exchange_name] = record_success(cb)]
    /\ cb_last' = CbCall("record_success", cb, FALSE)
    /\ failures_since_success' = 0
    /\ UNCHANGED <<now, gwrest, is_open_state, probe_failed_at>>

\* a task calls CircuitBreaker::record_failure
RecordFailure ==
    LET cb == circuit_breakers[exchange_name] IN
    /\ cb.failure_count < MaxFailures
    /\ circuit_breakers' = [circuit_breakers EXCEPT ![exchange_name] = record_failure(cb, now)]
    /\ cb_last' = CbCall("record_failure", cb, FALSE)
    /\ failures_since_success' = failures_since_success + 1
    /\ probe_failed_at' = IF cb.state = "HalfOpen" THEN Some(now) ELSE probe_failed_at
    /\ UNCHANGED <<now, gwrest, is_open_state>>

\* what a sweep did: its parameter, its time, and the status and updated_at
\* of the entries it removed and of those it left
Swept(max_age_hours, removed, kept) ==
    Some([max_age_hours |-> max_age_hours, at |-> now, removed |-> removed, kept |-> kept])

\* the janitor task calls cleanup_completed_orders
SweepCompletedOrders(max_age_hours) ==
    /\ CleanupCompletedOrders(max_age_hours)
    /\ sweep_last' =
          Swept(max_age_hours,
                {[status |-> active_orders[c].status, updated_at |-> active_orders[c].updated_at] :
                    c \in DOMAIN active_orders \ DOMAIN active_orders'},
                {[status |-> active_orders[c].status, updated_at |-> active_orders[c].updated_at] :
                    c \in DOMAIN active_orders \cap DOMAIN active_orders'})

\* the janitor task calls cleanup_old_orders
SweepOldOrders(max_age_hours) ==
    /\ CleanupOldOrders(max_age_hours)
    /\ sweep_last' =
          Swept(max_age_hours,
                {[status |-> orders[o].state, updated_at |-> orders[o].updated_at] :
                    o \in DOMAIN orders \ DOMAIN orders'},
                {[status |-> orders[o].state, updated_at |-> orders[o].updated_at] :
                    o \in DOMAIN orders \cap DOMAIN orders'})

\* no request has been answered, cancelled or put to sleep yet
ApiInit ==
    /\ api_last = None
    /\ cancelled = EmptyMap
    /\ sleep_last = None

Init ==
    /\ GwInit /\ OmInit /\ RlInit({NewRetryLogic(max_retries, 10, 40)}) /\ CbInit
    /\ sweep_last = None
    /\ ApiInit

Next ==
    \/ \E t \in Tasks, d \in Decisions : PlaceOrder(t, d) /\ UNCHANGED <<omvars, helpers, om_threads, rlvars, cbvars, sweep_last, apivars>>
    \/ \E t \in Tasks : DedupInsert(t) /\ UNCHANGED <<omvars, helpers, om_threads, rlvars, cbvars, sweep_last, apivars>>
    \/ \E t \in Tasks : ActiveInsert(t) /\ UNCHANGED <<omvars, helpers, om_threads, rlvars, cbvars, sweep_last, apivars>>
    \/ \E t \in Tasks : CheckBreaker(t) /\ UNCHANGED <<omvars, helpers, om_threads, rlvars, cbvars, sweep_last, apivars>>
    \/ \E t \in Tasks : AdapterRespond(t) /\ UNCHANGED <<omvars, helpers, om_threads, rlvars, cbvars, sweep_last, apivars>>
    \/ \E t \in Tasks : RecordResult(t) /\ UNCHANGED <<omvars, helpers, om_threads, rlvars, cbvars, sweep_last, apivars>>
    \/ \E t \in Tasks : UpdateOrderStatus(t) /\ UNCHANGED <<omvars, helpers, om_threads, rlvars, cbvars, sweep_last, apivars>>
    \/ \E m \in MaxAges : CleanupCompletedOrders(m) /\ UNCHANGED <<omvars, helpers, om_threads, rlvars, cbvars, sweep_last, apivars>>
    \/ Tick(MaxTime) /\ UNCHANGED <<omvars, helpers, om_threads, rlvars, cbvars, sweep_last, apivars>>

\* the gateway: requests, the janitor and the clock
Spec == Init /\ [][Next]_vars

\* the order manager on its own: the gateway never calls it
InitOM == Init /\ exchange_adapters = EmptyMap

NextOM ==
    \/ \E o \in OrderIds, c \in ClientIds : CreateOrder(o, c) /\ UNCHANGED <<gwvars, helpers, om_threads, rlvars, cbvars, sweep_last, apivars>>
    \/ \E o \in OrderIds, s \in OrderLifecycleState :
          TransitionState(o, s) /\ UNCHANGED <<gwvars, helpers, om_threads, rlvars, cbvars, sweep_last, apivars>>
    \/ \E m \in MaxAges : CleanupOldOrders(m) /\ UNCHANGED <<gwvars, helpers, om_threads, rlvars, cbvars, sweep_last, apivars>>
    \/ Tick(MaxTimeOM) /\ UNCHANGED <<omvars, helpers, om_threads, rlvars, cbvars, sweep_last, apivars>>

SpecOM == InitOM /\ [][NextOM]_vars

\* the retry policy on its own
InitDelay ==
    /\ GwInit /\ exchange_adapters = EmptyMap /\ OmInit /\ RlInit(RetryLogics) /\ CbInit
    /\ sweep_last = None
    /\ ApiInit

NextDelay ==
    \E k \in Attempts, overflow_checks \in BOOLEAN :
        \E jitter \in Jitters(retry_logic, k, overflow_checks) :
            CalculateDelay(k, jitter, overflow_checks) /\ UNCHANGED <<gwvars, helpers, omvars, om_threads, cbvars, sweep_last, apivars>>

SpecDelay == InitDelay /\ [][NextDelay]_vars

\* the breaker of one venue on its own, called by the gateway's tasks in any
\* order
InitCB == Init /\ exchange_adapters = [v \in {exchange_name} |-> "flaky"]

NextCB ==
    \/ IsOpen /\ UNCHANGED <<omvars, helpers, om_threads, rlvars, sweep_last, apivars>>
    \/ RecordSuccess /\ UNCHANGED <<omvars, helpers, om_threads, rlvars, sweep_last, apivars>>
    \/ RecordFailure /\ UNCHANGED <<omvars, helpers, om_threads, rlvars, sweep_last, apivars>>
    \/ Tick(MaxTime) /\ UNCHANGED <<omvars, helpers, om_threads, rlvars, cbvars, sweep_last, apivars>>

SpecCB == InitCB /\ [][NextCB]_vars

\* threads that call one breaker directly. is_open copies the mode under the
\* read lock of `state`, lets the lock go, and takes the write lock to store
\* HalfOpen: the two halves are separate steps of thread t
IsOpenRead(t) ==
    LET cb == circuit_breakers[exchange_name] IN
    /\ is_open_state[t] = None
    /\ IF cb.state = "Open" /\ RecoveryElapsed(cb, now)
       THEN /\ is_open_state' = [is_open_state EXCEPT ![t] = Some(cb.state)]
            /\ UNCHANGED cb_last
       ELSE /\ cb_last' = CbCall("is_open", cb, cb.state = "Open")
            /\ UNCHANGED is_open_state
    /\ UNCHANGED <<now, gwrest, circuit_breakers, failures_since_success, probe_failed_at>>

IsOpenWrite(t) ==
    LET cb == circuit_breakers[exchange_name] IN
    /\ is_open_state[t] # None
    /\ circuit_breakers' = [circuit_breakers EXCEPT ![exchange_name].state = "HalfOpen"]
    /\ cb_last' = CbCall("is_open", cb, FALSE)
    /\ is_open_state' = [is_open_state EXCEPT ![t] = None]
    /\ UNCHANGED <<now, gwrest, failures_since_success, probe_failed_at>>

\* CircuitBreaker::force_open
force_open(cb, t) == [cb EXCEPT !.state = "Open", !.last_failure_time = t]

\* CircuitBreaker::force_close
force_close(cb) == [cb EXCEPT !.state = "Closed", !.failure_count = 0]

ForceOpen ==
    LET cb == circuit_breakers[exchange_name] IN
    /\ circuit_breakers' = [circuit_breakers EXCEPT ![exchange_name] = force_open(cb, now)]
    /\ cb_last' = CbCall("force_open", cb, FALSE)
    /\ UNCHANGED <<now, gwrest, failures_since_success, probe_failed_at, is_open_state>>

ForceClose ==
    LET cb == circuit_breakers[exchange_name] IN
    /\ circuit_breakers' = [circuit_breakers EXCEPT ![exchange_name] = force_close(cb)]
    /\ cb_last' = CbCall("force_close", cb, FALSE)
    /\ UNCHANGED <<now, gwrest, failures_since_success, probe_failed_at, is_open_state>>

NextThreads ==
    \/ \E t \in Tasks : IsOpenRead(t) /\ UNCHANGED <<omvars, helpers, om_threads, rlvars, sweep_last, apivars>>
    \/ \E t \in Tasks : IsOpenWrite(t) /\ UNCHANGED <<omvars, helpers, om_threads, rlvars, sweep_last, apivars>>
    \/ RecordSuccess /\ UNCHANGED <<omvars, helpers, om_threads, rlvars, sweep_last, apivars>>
    \/ failures_since_success < MaxFailures /\ RecordFailure /\ UNCHANGED <<omvars, helpers, om_threads, rlvars, sweep_last, apivars>>
    \/ ForceOpen /\ UNCHANGED <<omvars, helpers, om_threads, rlvars, sweep_last, apivars>>
    \/ ForceClose /\ UNCHANGED <<omvars, helpers, om_threads, rlvars, sweep_last, apivars>>
    \/ Tick(MaxTime) /\ UNCHANGED <<omvars, helpers, om_threads, rlvars, cbvars, sweep_last, apivars>>

SpecThreads == InitCB /\ [][NextThreads]_vars

\* threads that call one order manager
NextManager ==
    \/ \E t \in Tasks, call \in ManagerCalls :
          OmBegin(t, call) /\ UNCHANGED <<gwvars, helpers, rlvars, cbvars, sweep_last, apivars>>
    \/ \E t \in Tasks : OmAcquire(t) /\ UNCHANGED <<gwvars, helpers, rlvars, cbvars, sweep_last, apivars>>
    \/ \E t \in Tasks : OmReturn(t) /\ UNCHANGED <<gwvars, helpers, rlvars, cbvars, sweep_last, apivars>>
    \/ Tick(MaxTimeOM) /\ UNCHANGED <<omvars, helpers, om_threads, rlvars, cbvars, sweep_last, apivars>>

SpecManager == InitOM /\ [][NextManager]_vars

\* the janitors at work. The gateway holds no OrderManager, so each kind of
\* process is run on its own: one with a venue registered serves one
\* place_order call of a caller, one without a venue drives an
\* order manager; in both the janitor sweeps at any moment, and sweep_last
\* holds what it did until the next call
Caller == "t1"
HasVenue == exchange_adapters # EmptyMap

NextSweep ==
    \/ HasVenue /\ sweep_last' = None /\ \E d \in Decisions : PlaceOrder(Caller, d)
           /\ UNCHANGED <<omvars, helpers, om_threads, rlvars, cbvars, apivars>>
    \/ HasVenue /\ sweep_last' = None /\ DedupInsert(Caller)
           /\ UNCHANGED <<omvars, helpers, om_threads, rlvars, cbvars, apivars>>
    \/ HasVenue /\ sweep_last' = None /\ ActiveInsert(Caller)
           /\ UNCHANGED <<omvars, helpers, om_threads, rlvars, cbvars, apivars>>
    \/ HasVenue /\ sweep_last' = None /\ CheckBreaker(Caller)
           /\ UNCHANGED <<omvars, helpers, om_threads, rlvars, cbvars, apivars>>
    \/ HasVenue /\ sweep_last' = None /\ AdapterRespond(Caller)
           /\ UNCHANGED <<omvars, helpers, om_threads, rlvars, cbvars, apivars>>
    \/ HasVenue /\ sweep_last' = None /\ RecordResult(Caller)
           /\ UNCHANGED <<omvars, helpers, om_threads, rlvars, cbvars, apivars>>
    \/ HasVenue /\ sweep_last' = None /\ UpdateOrderStatus(Caller)
           /\ UNCHANGED <<omvars, helpers, om_threads, rlvars, cbvars, apivars>>
    \/ HasVenue /\ \E m \in MaxAges : SweepCompletedOrders(m)
           /\ UNCHANGED <<omvars, helpers, om_threads, rlvars, cbvars, apivars>>
    \/ ~HasVenue /\ sweep_last' = None
           /\ \E o \in OrderIds, c \in ClientIds : CreateOrder(o, c)
           /\ UNCHANGED <<gwvars, helpers, om_threads, rlvars, cbvars, apivars>>
    \/ ~HasVenue /\ sweep_last' = None
           /\ \E o \in OrderIds, st \in OrderLifecycleState : TransitionState(o, st)
           /\ UNCHANGED <<gwvars, helpers, om_threads, rlvars, cbvars, apivars>>
    \/ ~HasVenue /\ \E m \in MaxAges : SweepOldOrders(m)
           /\ UNCHANGED <<gwvars, helpers, om_threads, rlvars, cbvars, apivars>>
    \/ Tick(IF HasVenue THEN MaxTime ELSE MaxTimeOM)
           /\ UNCHANGED <<omvars, helpers, om_threads, rlvars, cbvars, sweep_last, apivars>>

SpecSweep == Init /\ [][NextSweep]_vars

\* the HTTP surface: one client posts a decision, which runs down the
\* pipeline, while others post decisions that fail validation and ask for
\* orders to be cancelled
NextApi ==
    \/ \E d \in PostedDecisions : ApiPlaceOrder(Caller, d)
           /\ UNCHANGED <<omvars, helpers, om_threads, rlvars, cbvars, sweep_last, cancelled, sleep_last>>
    \/ DedupInsert(Caller) /\ api_last' = None
           /\ UNCHANGED <<omvars, helpers, om_threads, rlvars, cbvars, sweep_last, cancelled, sleep_last>>
    \/ ActiveInsert(Caller) /\ api_last' = None
           /\ UNCHANGED <<omvars, helpers, om_threads, rlvars, cbvars, sweep_last, cancelled, sleep_last>>
    \/ CheckBreaker(Caller) /\ api_last' = None /\ sleep_last' = None
           /\ UNCHANGED <<omvars, helpers, om_threads, rlvars, cbvars, sweep_last, cancelled>>
    \/ AdapterRespond(Caller) /\ Sleep(Caller) /\ api_last' = None
           /\ UNCHANGED <<omvars, helpers, om_threads, rlvars, cbvars, sweep_last, cancelled>>
    \/ RecordResult(Caller) /\ Sleep(Caller) /\ api_last' = None
           /\ UNCHANGED <<omvars, helpers, om_threads, rlvars, cbvars, sweep_last, cancelled>>
    \/ ApiPlaceOrderReturns(Caller)
           /\ UNCHANGED <<omvars, helpers, om_threads, rlvars, cbvars, sweep_last, cancelled, sleep_last>>
    \/ \E o \in CancelledOrderIds : ApiCancelOrder(o)
           /\ UNCHANGED <<omvars, helpers, om_threads, rlvars, cbvars, sweep_last, sleep_last>>
    \/ Tick(MaxTime) /\ UNCHANGED <<omvars, helpers, om_threads, rlvars, cbvars, sweep_last, apivars>>

\* the venue of the API's gateway may also be one that rejects every order
\* for insufficient funds
ApiRegistrations == Registrations \cup {[v \in {exchange_name} |-> "rejecting"]}

InitApi ==
    /\ GwInitWith(ApiRegistrations) /\ OmInit
    /\ RlInit({NewRetryLogic(max_retries, 10, 40)}) /\ CbInit
    /\ sweep_last = None
    /\ ApiInit

SpecApi == InitApi /\ [][NextApi]_vars

\* the error classification on its own
InitPolicy == Init /\ exchange_adapters = EmptyMap

NextPolicy ==
    \E error \in PolicyErrors :
        DetermineRetryPolicy(error)
            /\ UNCHANGED <<gwvars, helpers, omvars, om_threads, cbvars, sweep_last, apivars>>

SpecPolicy == InitPolicy /\ [][NextPolicy]_vars

\* the gateway with its locks: place_order calls beside the janitor,
\* register_exchange_adapter and cancel_order / get_order_status, each of
\* which waits where the lock it asks for is taken
others == <<omvars, om_threads, rlvars, cbvars, sweep_last, apivars>>

InitTasks ==
    /\ Init
    /\ exchange_adapters \in {EmptyMap, [v \in {exchange_name} |-> "failing"]}

\* the gateway with a venue that fails every order
InitFailing == Init /\ exchange_adapters = [v \in {exchange_name} |-> "failing"]

PlaceOrderStep(t, decisions) ==
    \/ \E d \in decisions : PlaceOrder(t, d)
    \/ DedupInsert(t)
    \/ ActiveOrdersAvailable /\ ActiveInsert(t)
    \/ (AdaptersReadable \/ BreakerDenies) /\ CheckBreaker(t)
    \/ (NeedsActiveOrders(t) => ActiveOrdersAvailable) /\ AdapterRespond(t)
    \/ RecordResult(t)
    \/ ActiveOrdersAvailable /\ UpdateOrderStatus(t)

JanitorStep ==
    \/ JanitorLock
    \/ \E m \in MaxAges : JanitorSweep(m)

RegistrarStep(names, adapters) ==
    \/ \E name \in names : RegistrarCall(name)
    \/ \E adapter \in adapters : RegistrarInsertAdapter(adapter)
    \/ RegistrarInsertBreaker

CancellerStep ==
    \/ CancellerCall
    \/ CancellerReturn

\* two place_order calls of one decision, beside the helpers; the venue
\* fails until register_exchange_adapter replaces it by one that fills in
\* part, whose fills are recorded while the adapter table is still held
NextTasks ==
    \/ \E t \in Tasks : PlaceOrderStep(t, {"d1"}) /\ UNCHANGED <<helpers, others>>
    \/ JanitorStep /\ UNCHANGED others
    \/ RegistrarStep({exchange_name}, {"filling in part"}) /\ UNCHANGED others
    \/ CancellerStep /\ UNCHANGED others

\* the call of task t is under way
Started(t) == pc[t] \notin {"idle", "done"}

\* scheduling: tokio's locks queue their waiters, so a call that asks for a
\* lock over and over gets it although others take it in between (strong
\* fairness of a call's steps); an adapter call returns, and a helper that
\* holds a lock goes on to release it
FairTasks ==
    /\ \A t \in Tasks :
          SF_vars(Started(t) /\ PlaceOrderStep(t, {"d1"}) /\ UNCHANGED <<helpers, others>>)
    /\ WF_vars((\E m \in MaxAges : JanitorSweep(m)) /\ UNCHANGED others)
    /\ WF_vars(RegistrarInsertAdapter("filling in part") /\ UNCHANGED others)
    /\ WF_vars(RegistrarInsertBreaker /\ UNCHANGED others)
    /\ WF_vars(CancellerReturn /\ UNCHANGED others)

SpecTasks == InitFailing /\ [][NextTasks]_vars /\ FairTasks

\* one place_order call while adapters are registered
NextRegister ==
    \/ PlaceOrderStep(Caller, ValidDecisions) /\ UNCHANGED <<helpers, others>>
    \/ RegistrarStep(Venues, {"filling"}) /\ UNCHANGED others
    \/ Tick(MaxTime) /\ UNCHANGED <<helpers, others>>

SpecRegister == InitTasks /\ [][NextRegister]_vars

\* ---------------------------------------------------------------- claims
\* the calls that have returned
Returned == {t \in Tasks : pc[t] = "done"}
\* the calls that went down the submission pipeline: they minted an order id
Pipelines(d) == {t \in Tasks : dec[t] = d /\ oid[t] # 0}
\* the calls that were answered from the deduplication map
Duplicates(d) == {t \in Returned : dec[t] = d /\ oid[t] = 0}
\* the decisions no janitor sweep has removed
Unreaped == {d \in ValidDecisions : reaped[d] = 0}
Filling == exchange_adapters = [v \in {exchange_name} |-> "filling"]

\* C1: however many place_order calls carry one client decision id, the
\* adapter is invoked as often as for a single call: only one of the calls
\* invokes it.
C1_OneCallInvokesAdapter ==
    \A d \in Unreaped :
        Cardinality({t \in Tasks : dec[t] = d /\ invocations[t] > 0}) <= 1

\* C2: of the calls racing on one client decision id exactly one wins the
\* insert into the deduplication map and mints an order id; no two run the
\* submission pipeline for the same id.
C2_OnePipelinePerDecision ==
    \A d \in Unreaped : Cardinality(Pipelines(d)) <= 1

\* the fields of the result a caller of place_order sees
SameResult(r1, r2) ==
    /\ r1.ok = r2.ok
    /\ r1.ok =>
         /\ r1.value.decision_id = r2.value.decision_id
         /\ r1.value.order_id = r2.value.order_id
         /\ r1.value.status = r2.value.status
         /\ r1.value.filled_quantity = r2.value.filled_quantity
         /\ r1.value.average_price = r2.value.average_price
         /\ r1.value.commission = r2.value.commission

\* C3: a duplicate call returns the same result as the original call, the
\* one that minted the order id the duplicate is answered with, whether the
\* original succeeded or failed.
C3_DuplicateSameResult ==
    \A d \in ValidDecisions : \A t \in Duplicates(d) : \A u \in Pipelines(d) \cap Returned :
        (ret[t].ok /\ ret[t].value.order_id = oid[u])
            => SameResult(ret[t], ret[u])

C5_NoAdmissionWhileBlocked ==
    [][Blocked => \A t \in Tasks :
          ~(pc[t] \in {"cb_check", "backoff"} /\ pc'[t] \in {"inflight", "record"})]_vars

\* the terminal states and the table of legal transitions, as stated
TerminalStates == {"Filled", "Cancelled", "Rejected", "Expired", "Failed"}
LegalTransitions ==
    ({"Created"} \X {"Validated", "Rejected", "Failed"})
    \cup ({"Validated"} \X {"Submitted", "Rejected", "Failed"})
    \cup ({"Submitted"} \X {"Acknowledged", "Rejected", "Failed", "Expired"})
    \cup ({"Acknowledged"} \X
            {"PartiallyFilled", "Filled", "Cancelled", "Rejected", "Failed", "Expired"})
    \cup ({"PartiallyFilled"} \X {"Filled", "Cancelled", "Failed", "Expired"})

\* the last call was transition_state on a lifecycle that existed
Transitioned ==
    /\ om_last # None
    /\ Unwrap(om_last).op = "transition_state"
    /\ Unwrap(om_last).from_state # None

\* C6: a lifecycle in a terminal state never transitions again:
\* transition_state on it returns the invalid-transition error for every
\* target state and leaves it in its state, and no history holds a
\* transition out of a terminal state.
C6_TerminalClosed ==
    /\ (Transitioned /\ Unwrap(Unwrap(om_last).from_state) \in TerminalStates) =>
          /\ Unwrap(om_last).result = Err(InvalidTransition)
          /\ orders[Unwrap(om_last).order_id].state = Unwrap(Unwrap(om_last).from_state)
    /\ \A o \in DOMAIN orders : \A i \in DOMAIN orders[o].state_history :
          orders[o].state_history[i].from_state \notin TerminalStates

\* transition_state with a legal target of Acknowledged was refused on a
\* filled lifecycle
C6_Witness ==
    /\ Transitioned
    /\ Unwrap(Unwrap(om_last).from_state) = "Filled"
    /\ Unwrap(om_last).new_state = "Cancelled"
    /\ ~Unwrap(om_last).result.ok

\* C7: transition_state on an existing lifecycle succeeds if and only if the
\* pair (current state, new state) is in the table of legal transitions; the
\* lifecycle is then in the new state, and otherwise in the state it was in.
C7_LegalTable ==
    Transitioned =>
        LET call == Unwrap(om_last)
            from_state == Unwrap(call.from_state)
        IN /\ call.result.ok <=> <<from_state, call.new_state>> \in LegalTransitions
           /\ orders[call.order_id].state =
                 IF call.result.ok THEN call.new_state ELSE from_state

\* a partially filled lifecycle was moved to Expired
C7_Witness ==
    /\ Transitioned
    /\ Unwrap(Unwrap(om_last).from_state) = "PartiallyFilled"
    /\ Unwrap(om_last).new_state = "Expired"
    /\ Unwrap(om_last).result.ok

RECURSIVE SumOfFills(_)
SumOfFills(fills) ==
    IF fills = <<>> THEN 0 ELSE fills[1].quantity + SumOfFills(Tail(fills))

\* C8: at every moment the total filled quantity of a tracked order is the
\* sum of the quantities of its recorded fills.
C8_FillSum ==
    \A c \in DOMAIN active_orders :
        active_orders[c].total_filled = SumOfFills(active_orders[c].partial_fills)

\* an order with several recorded fills
C8_Witness ==
    \E c \in DOMAIN active_orders :
        /\ Len(active_orders[c].partial_fills) >= 3
        /\ active_orders[c].total_filled >= 4

\* C9: the total filled quantity of a tracked order never exceeds the
\* quantity requested, whatever the adapter reports.
C9_FillBound ==
    \A c \in DOMAIN active_orders :
        active_orders[c].total_filled <= risk_adjusted_quantity(c)

\* C10: one place_order call invokes the adapter at most max_retries times.
C10_AtMostMaxRetries == \A t \in Tasks : invocations[t] <= max_retries

\* C10: one place_order call invokes the adapter at most max_retries + 1
\* times: the first attempt and max_retries retries.
C10_AtMostMaxRetriesPlusOne == \A t \in Tasks : invocations[t] <= max_retries + 1

\* a call that failed after the first attempt and every retry
C10_Witness ==
    \E t \in Returned : invocations[t] = max_retries + 1 /\ ~ret[t].ok

\* the adapter always fails and the breaker's threshold is above R + 1
AlwaysFailing ==
    /\ exchange_adapters = [v \in {exchange_name} |-> "failing"]
    /\ circuit_breakers[exchange_name].failure_threshold > max_retries + 1
\* call t is the only call made so far
Alone(t) == \A u \in Tasks \ {t} : pc[u] = "idle"

Nominal(rl, k) ==
    IF rl.base_delay_ms * Pow2(k - 1) < rl.max_delay_ms
    THEN rl.base_delay_ms * Pow2(k - 1) ELSE rl.max_delay_ms

\* C12: calculate_delay(0) is 0, and for every attempt index k >= 1 and every
\* jitter draw calculate_delay(k) returns a delay between 0.75 and 1.25 times
\* min(baseDelay * 2^(k-1), maxDelay).
C12_JitterBound ==
    delay_last # None =>
        LET call == Unwrap(delay_last)
            n == Nominal(retry_logic, call.attempt)
        IN /\ call.delay # None
           /\ call.attempt = 0 => Unwrap(call.delay) = 0
           /\ call.attempt >= 1 =>
                 /\ 4 * Unwrap(call.delay) >= 3 * n
                 /\ 4 * Unwrap(call.delay) <= 5 * n

\* the last entry of a history
LastEntry(lifecycle) == lifecycle.state_history[Len(lifecycle.state_history)]

IsPrefix(h, g) == Len(h) <= Len(g) /\ \A i \in DOMAIN h : h[i] = g[i]

\* every entry is a legal transition and the entries chain from Created
ChainedFromCreated(h) ==
    \A i \in DOMAIN h :
        /\ <<h[i].from_state, h[i].to_state>> \in LegalTransitions
        /\ h[i].from_state = IF i = 1 THEN "Created" ELSE h[i - 1].to_state

\* C14: every entry of a lifecycle's history is a legal transition, each
\* entry starts where the previous one ended and the first starts from
\* Created, and over any manager operation the history a lifecycle had is a
\* prefix of the history it has afterwards, as long as it is not reaped.
C14_HistoryAppendOnly ==
    [][\A o \in DOMAIN orders' :
          /\ ChainedFromCreated(orders'[o].state_history)
          /\ o \in DOMAIN orders =>
                IsPrefix(orders[o].state_history, orders'[o].state_history)]_vars

\* C15: after any sequence of create, transition and reap operations the
\* client-id index maps each client id to the order id of a stored lifecycle
\* that carries that client id, and every stored lifecycle is found through
\* the index under its own client id: one order id per client id.
C15_IndexConsistent ==
    /\ \A c \in DOMAIN client_id_mapping :
          /\ client_id_mapping[c] \in DOMAIN orders
          /\ orders[client_id_mapping[c]].client_id = c
    /\ \A o \in DOMAIN orders :
          /\ orders[o].order_id = o
          /\ orders[o].client_id \in DOMAIN client_id_mapping
          /\ client_id_mapping[orders[o].client_id] = o


\* the venue's breaker, and the last call made on it
Breaker == circuit_breakers[exchange_name]
LastCall == cb_last[1]
Called(op, states) ==
    cb_last # None /\ LastCall.op = op /\ LastCall.before.state \in states

\* C16: a failure recorded on a Closed breaker raises the failure count by
\* one; the breaker stays Closed while the count is below the threshold and
\* is Open exactly when the count has reached it, and an admission check
\* made then reports the breaker open. A Closed breaker's count is always
\* below the threshold, so the opening failure is the one that reaches it.
C16_ClosedFailure ==
    /\ Breaker.state = "Closed" => Breaker.failure_count < Breaker.failure_threshold
    /\ Called("record_failure", {"Closed"}) =>
          /\ Breaker.failure_count = LastCall.before.failure_count + 1
          /\ Breaker.failure_count < Breaker.failure_threshold => Breaker.state = "Closed"
          /\ Breaker.failure_count = Breaker.failure_threshold =>
                Breaker.state = "Open" /\ is_open(Breaker, LastCall.at)
          /\ Breaker.failure_count <= Breaker.failure_threshold

\* a failure on a Closed breaker has just brought the count to the default
\* threshold and opened it
C16_Witness ==
    /\ Called("record_failure", {"Closed"})
    /\ Breaker.failure_threshold = default_failure_threshold
    /\ Breaker.failure_count = default_failure_threshold
    /\ Breaker.state = "Open"

\* C17: a success recorded on a Closed or HalfOpen breaker leaves it Closed
\* with a failure count of zero, and the count is at every moment the number
\* of failures recorded since the last success: failures separated by a
\* success never add up.
C17_SuccessResets ==
    /\ Called("record_success", {"Closed", "HalfOpen"}) =>
          Breaker.state = "Closed" /\ Breaker.failure_count = 0
    /\ Breaker.failure_count = failures_since_success

\* a success has been recorded on a Closed breaker that had counted failures
C17_Witness ==
    /\ Called("record_success", {"Closed"})
    /\ LastCall.before.failure_count > 0
    /\ Breaker.failure_count = 0

\* C18: a failure recorded on a HalfOpen breaker leaves it Open with
\* last_failure_time set to the time of that failure, and every admission
\* check made less than recovery_timeout after a failed probe is denied.
C18_ProbeFailureReopens ==
    /\ Called("record_failure", {"HalfOpen"}) =>
          Breaker.state = "Open" /\ Breaker.last_failure_time = LastCall.at
    /\ ( /\ Called("is_open", {"Closed", "Open", "HalfOpen"})
         /\ probe_failed_at # None
         /\ LastCall.at - probe_failed_at[1] < recovery_timeout ) =>
          LastCall.result = TRUE

\* an admission check has just been made on a breaker in one of the states,
\* elapsed being the time since the last recorded failure
Elapsed == LastCall.at - LastCall.before.last_failure_time

\* C19 as stated: a check on an Open breaker made when recovery_timeout or
\* more has elapsed since the last failure moves it to HalfOpen and allows,
\* a check made earlier denies and leaves it Open, and a check on a Closed or
\* HalfOpen breaker allows and leaves the breaker as it was.
C19_AdmissionAtTimeout ==
    /\ Called("is_open", {"Open"}) =>
          IF Elapsed >= recovery_timeout
          THEN LastCall.result = FALSE /\ Breaker.state = "HalfOpen"
          ELSE LastCall.result = TRUE /\ Breaker = LastCall.before
    /\ Called("is_open", {"Closed", "HalfOpen"}) =>
          LastCall.result = FALSE /\ Breaker = LastCall.before

\* C19: a check on an Open breaker made when more than recovery_timeout has
\* elapsed since the last failure moves it to HalfOpen and allows, a check
\* made at recovery_timeout or earlier denies and leaves it Open, and a
\* check on a Closed or HalfOpen breaker allows and leaves the breaker as it
\* was, so that every caller that checks while it is HalfOpen is allowed.
C19_AdmissionAfterTimeout ==
    /\ Called("is_open", {"Open"}) =>
          IF Elapsed > recovery_timeout
          THEN /\ LastCall.result = FALSE
               /\ Breaker = [LastCall.before EXCEPT !.state = "HalfOpen"]
          ELSE LastCall.result = TRUE /\ Breaker = LastCall.before
    /\ Called("is_open", {"Closed", "HalfOpen"}) =>
          LastCall.result = FALSE /\ Breaker = LastCall.before

\* a check made exactly recovery_timeout after the last failure has found the
\* breaker Open and was denied
C19_Witness ==
    /\ Called("is_open", {"Open"})
    /\ Elapsed = recovery_timeout
    /\ LastCall.result = TRUE
    /\ Breaker.state = "Open"

\* an entry a sweep found is due when it is terminal and was last updated
\* before the sweep's cutoff
Due(sw, e) ==
    e.status \in TerminalStates /\ e.updated_at < sw.at - sw.max_age_hours

\* C20: a sweep of either janitor with parameter max_age_hours removes only
\* orders that are in a terminal state and were last updated before
\* now - max_age_hours: every order it found that is not terminal, or is
\* terminal but was updated within the window, is still tracked after it.
C20_SweepRemovesOnlyOldTerminal ==
    sweep_last # None =>
        LET sw == sweep_last[1] IN
        /\ \A e \in sw.removed : Due(sw, e)
        /\ \A e \in sw.removed \cup sw.kept : ~Due(sw, e) => e \in sw.kept /\ e \notin sw.removed

\* a sweep has removed an order and has left one that is older than the
\* window but not terminal
C20_Witness ==
    /\ sweep_last # None
    /\ sweep_last[1].removed # {}
    /\ \E e \in sweep_last[1].kept :
          /\ e.status \notin TerminalStates
          /\ e.updated_at < sweep_last[1].at - sweep_last[1].max_age_hours

\* the last call answered by a handler, and the orders with the id a
\* cancellation asked for that were tracked when it was made
Answer == api_last[1]
AnsweredTo(op) == api_last # None /\ Answer.op = op
TrackedAtCall ==
    {c \in DOMAIN Answer.active_orders : Answer.active_orders[c].order_id = Answer.request}

\* C21: a cancellation of an order id that no tracked order has is answered
\* 404 ORDER_NOT_FOUND, and a cancellation of an order that is in a terminal
\* state is not answered with success.
C21_CancelLooksUp ==
    AnsweredTo("cancel_order") =>
        /\ TrackedAtCall = {} => Answer.response = Response(404, "ORDER_NOT_FOUND")
        /\ \A c \in TrackedAtCall :
              Answer.active_orders[c].status \in TerminalExecutionStatus =>
                 Answer.response.status # 200

\* C22: once cancel_order has returned success for a tracked order that was
\* not in a terminal state, the order's status is Cancelled for as long as
\* it is tracked.
C22_CancelledStays ==
    \A o \in DOMAIN cancelled :
        \A c \in Tracked(o) : active_orders[c].status = "Cancelled"

\* C23: once cancel_order has returned success for an order whose place_order
\* call was waiting between two attempts, that call invokes the adapter's
\* place_order no more.
C23_CancelStopsRetry ==
    \A o \in DOMAIN cancelled :
        cancelled[o].pc = {"backoff"} =>
            \A t \in Tasks : oid[t] = o => invocations[t] = cancelled[o].invocations[t]

AllReturnedDistinct ==
    /\ exchange_adapters = [v \in {exchange_name} |-> "filling"]
    /\ Returned = Tasks
    /\ \A t, u \in Tasks : t # u => dec[t] # dec[u]
    /\ \A c \in ValidDecisions : reaped[c] = 0

\* C25: when place_order calls with pairwise distinct decision ids have run
\* concurrently against a venue that always fills, each has returned success
\* and the number of tracked orders is the number of calls.
C25_ConcurrentDistinct ==
    AllReturnedDistinct =>
        /\ \A t \in Tasks : ret[t].ok
        /\ ActiveOrdersCount = Cardinality(Tasks)

\* a text in lower case, for the capitals the messages begin with
LowerChar(c) ==
    CASE c = "I" -> "i" [] c = "M" -> "m" [] c = "R" -> "r" [] c = "P" -> "p"
      [] c = "B" -> "b" [] c = "T" -> "t" [] c = "C" -> "c" [] c = "U" -> "u"
      [] c = "S" -> "s" [] c = "D" -> "d" [] OTHER -> c
Lower(str) == [i \in DOMAIN str |-> LowerChar(str[i])]

\* the vocabularies of the classification, and a message that matches one
\* whatever its capitals
TransientVocabulary == {S_timeout, S_rate_limit, S_temporary, S_service_unavailable}
TerminalVocabulary == {S_insufficient_funds, S_invalid_order, S_market_closed}
Matches(message, vocabulary) == \E w \in vocabulary : Contains(Lower(message), w)

\* C26: a network or data error is classified ExponentialBackoff and a
\* risk-limit or serialization error NoRetry; a venue execution error whose
\* message matches the transient vocabulary is ExponentialBackoff, one that
\* matches the terminal vocabulary, such as "Insufficient funds", is NoRetry,
\* and every other one is ExponentialBackoff.
C26_Classification ==
    policy_last # None =>
        LET error == policy_last[1].error
            policy == policy_last[1].policy
        IN CASE error.variant \in {"NetworkError", "DataError"} ->
                    policy = "ExponentialBackoff"
             [] error.variant \in {"RiskLimitError", "SerializationError"} ->
                    policy = "NoRetry"
             [] error.variant = "ExecutionError" ->
                    IF Matches(error.message, TransientVocabulary)
                    THEN policy = "ExponentialBackoff"
                    ELSE IF Matches(error.message, TerminalVocabulary)
                    THEN policy = "NoRetry"
                    ELSE policy = "ExponentialBackoff"

\* the venue answers every placement with an error that the classification
\* gives up on
NoRetryVenue ==
    /\ exchange_name \in DOMAIN exchange_adapters
    /\ \A d \in ValidDecisions :
          \A r \in AdapterPlaceOrder(exchange_adapters[exchange_name], d) :
              ~r.ok /\ determine_retry_policy(TradingError(r.error)) = "NoRetry"

\* C27: when an adapter attempt fails with an error classified NoRetry the
\* retry loop stops at once: the adapter is not invoked again, the call
\* returns that error and the order is Failed.
C27_NoRetryStops ==
    NoRetryVenue =>
        \A t \in Tasks :
            /\ invocations[t] <= 1
            /\ pc[t] # "backoff"
            /\ (pc[t] = "done" /\ invocations[t] = 1) =>
                  /\ ~ret[t].ok
                  /\ determine_retry_policy(TradingError(ret[t].error)) = "NoRetry"
                  /\ dec[t] \in DOMAIN active_orders =>
                        active_orders[dec[t]].status = "Failed"

\* the calls that the breaker denied
Denied == {t \in Tasks : /\ pc[t] \in {"update_status", "done"}
                         /\ ~ret[t].ok
                         /\ ret[t].error = "ExecutionError: Circuit breaker open"}

\* the step in which the breaker denies an attempt of call t
Denial(t) == pc[t] \in {"cb_check", "backoff"} /\ pc'[t] = "update_status"

\* C28: when the breaker denies attempt k of a call, the adapter is invoked
\* neither for attempt k nor later (it was invoked k times in all), the call
\* returns an ExecutionError and its order is Failed, and the denial itself
\* leaves the breaker's failure count, last failure time and mode unchanged.
C28_BreakerDenial ==
    /\ [](\A t \in Denied :
            /\ invocations[t] = attempt[t]
            /\ TradingError(ret[t].error).variant = "ExecutionError"
            /\ (pc[t] = "done" /\ dec[t] \in DOMAIN active_orders) =>
                  active_orders[dec[t]].status = "Failed")
    /\ [][\A t \in Tasks :
            Denial(t) => /\ t \in Denied'
                         /\ invocations' = invocations
                         /\ circuit_breakers' = circuit_breakers]_vars

\* a call was denied at its third attempt, after two adapter invocations, and
\* has returned with its order Failed
C28_Witness ==
    \E t \in Denied :
        /\ pc[t] = "done"
        /\ attempt[t] = 2 /\ invocations[t] = 2
        /\ active_orders[dec[t]].status = "Failed"
        /\ Breaker.state = "Open"

\* C29: attempt 0 is made without a sleep, and the sleep before every attempt
\* k > 0 is a delay between 0.75 and 1.25 times
\* min(baseDelay * 2^(k-1), maxDelay); before the first retry it is at least
\* 0.75 * baseDelay.
C29_BackoffOrdering ==
    /\ \A t \in Tasks : (pc[t] = "backoff" /\ sleep_last # None) => attempt[t] > 0
    /\ sleep_last # None =>
          LET sleep == Unwrap(sleep_last)
              n == Nominal(retry_logic, sleep.next_attempt)
          IN /\ sleep.next_attempt > 0
             /\ sleep.delay # None
             /\ 4 * Unwrap(sleep.delay) >= 3 * n
             /\ 4 * Unwrap(sleep.delay) <= 5 * n
             /\ sleep.next_attempt = 1 =>
                   4 * Unwrap(sleep.delay) >= 3 * retry_logic.base_delay_ms

\* the calls that submitted decision d to the venue
Submitters(d) == {t \in Tasks : dec[t] = d /\ invocations[t] > 0}

\* decision d is between the two insertions of a place_order call
Inserting(d) == \E t \in Tasks : pc[t] = "active_insert" /\ dec[t] = d

\* C30: the janitor removes an order and its dedup entry together, so outside
\* the insertions of place_order itself a decision has a dedup entry exactly
\* when it has a tracked order; and a decision is submitted to the venue again
\* only after the janitor has removed its previous order.
C30_JanitorAtomic ==
    \A d \in ValidDecisions :
        /\ ~Inserting(d) =>
              (d \in DOMAIN order_deduplication <=> d \in DOMAIN active_orders)
        /\ Cardinality(Submitters(d)) <= reaped[d] + 1

\* the calls suspended in an adapter call or in a backoff sleep
Suspended == {t \in Tasks : pc[t] \in {"inflight", "backoff"}}

\* C31: a call that waits on adapter I/O or on a backoff timer holds none of
\* the gateway's locks.
C31_NoLockWhileSuspended == \A t \in Suspended : Holds(t) \cap Locks = {}

\* the recorded fills of a tracked order that carry the fill id `id`
FillsWithId(o, id) == {i \in DOMAIN o.partial_fills : o.partial_fills[i].fill_id = id}

\* C32: a reported fill whose fill id is already recorded for the order is
\* discarded, leaving the fill list, the total and the average price as they
\* were: no tracked order records the same fill id twice.
C32_FillIdempotent ==
    \A c \in DOMAIN active_orders :
        \A id \in {"f1", "f2"} : Cardinality(FillsWithId(active_orders[c], id)) <= 1

\* C38: is_open changes the mode only from Open to HalfOpen: whatever other
\* threads call on the breaker meanwhile, is_open does not store HalfOpen on
\* a breaker that is Closed when it writes.
C38_HalfOpenOnlyFromOpen ==
    Called("is_open", {"Closed", "HalfOpen"}) => Breaker.state = LastCall.before.state

\* the last manager call was a transition_state that returned an error
TransitionFailed ==
    /\ om_last # None
    /\ Unwrap(om_last).op = "transition_state"
    /\ ~Unwrap(om_last).result.ok

\* C39: a transition_state call that returns an error, for an unknown order
\* id or an illegal transition, leaves every lifecycle (state, history,
\* updated_at, metadata) and the client-id index as they were.
C39_FailedTransitionNoEffect ==
    [][TransitionFailed' => (orders' = orders /\ client_id_mapping' = client_id_mapping)]_vars

\* an illegal transition was refused for an order that has a history and was
\* last updated earlier
C39_Witness ==
    /\ TransitionFailed
    /\ Unwrap(om_last).result = Err(InvalidTransition)
    /\ LET lifecycle == orders[Unwrap(om_last).order_id]
       IN /\ Len(lifecycle.state_history) >= 1
          /\ lifecycle.updated_at < now
          /\ lifecycle.state = Unwrap(Unwrap(om_last).from_state)

\* the threads that are in a manager call
InCall == {t \in Tasks : om_threads[t] # Idle}

\* thread t can take its next step: it holds all its guards, or the guard it
\* waits for can be granted
CanProceed(t) ==
    \/ NextLock(om_threads[t]) = NoLock
    \/ Available(t, NextLock(om_threads[t]))

\* C35: concurrent OrderManager operations do not deadlock: whenever
\* operations are under way, one of them can take its next step, so every
\* started operation gets its locks on the lifecycle table and the client-id
\* index and completes.
C35_ManagerNoDeadlock == InCall # {} => \E t \in InCall : CanProceed(t)

\* the steps of register_exchange_adapter
AdapterInserted == helpers.registrar = "waiting" /\ helpers'.registrar = "inserting"
BreakerInserted == helpers.registrar = "inserting" /\ helpers'.registrar = "idle"

\* C40: register_exchange_adapter under a venue name puts the adapter in
\* place of the one registered and a new breaker, Closed with no failures
\* counted, in place of the venue's breaker whatever its mode was; the
\* adapters and breakers of every other venue stay as they are.
C40_RegisterResets ==
    [][LET name == helpers.exchange_name IN
       /\ AdapterInserted =>
             /\ DOMAIN exchange_adapters' = DOMAIN exchange_adapters \cup {name}
             /\ exchange_adapters'[name] \in RegisteredKinds
             /\ \A v \in DOMAIN exchange_adapters \ {name} :
                   exchange_adapters'[v] = exchange_adapters[v]
             /\ circuit_breakers' = circuit_breakers
       /\ BreakerInserted =>
             /\ DOMAIN circuit_breakers' = DOMAIN circuit_breakers \cup {name}
             /\ circuit_breakers'[name].state = "Closed"
             /\ circuit_breakers'[name].failure_count = 0
             /\ \A v \in DOMAIN circuit_breakers \ {name} :
                   circuit_breakers'[v] = circuit_breakers[v]
             /\ exchange_adapters' = exchange_adapters]_vars

\* the venue's breaker opened under a failing adapter; the venue was
\* registered again before the recovery timeout had elapsed, beside another
\* venue, and the call's next attempt has been admitted to the new adapter
C40_Witness ==
    /\ Blocked
    /\ helpers.registrar = "idle"
    /\ DOMAIN exchange_adapters = Venues
    /\ exchange_adapters[exchange_name] = "filling"
    /\ Breaker.state = "Closed" /\ Breaker.failure_count = 0
    /\ pc[Caller] = "inflight" /\ attempt[Caller] = 2

\* the calls whose submission loop returned success
Succeeded == {t \in Returned : oid[t] # 0 /\ ret[t].ok}

\* C33: the result of a call that succeeded at attempt k carries
\* retry_count = k, and k is the number of failed adapter invocations the call
\* made before the successful one.
C33_RetryCountIsFailedInvocations ==
    \A t \in Succeeded :
        /\ ret[t].value.retry_count = attempt[t]
        /\ ret[t].value.retry_count = invocations[t] - 1

\* C33: the result of a call that succeeded at attempt k carries
\* retry_count = k, the number of attempts that failed before it; each of
\* them invoked the adapter unless no adapter was registered when it was made,
\* so the adapter failed at most k times.
C33_RetryCountIsAttempt ==
    \A t \in Succeeded :
        /\ ret[t].value.retry_count = attempt[t]
        /\ invocations[t] >= 1
        /\ invocations[t] - 1 <= ret[t].value.retry_count

\* a call that found no adapter at its first attempt and succeeded at the
\* second, after the venue was registered
C33_Witness ==
    \E t \in Succeeded : ret[t].value.retry_count = 1 /\ invocations[t] = 1

RECURSIVE Notional(_)
Notional(fills) ==
    IF fills = <<>> THEN 0
    ELSE fills[1].quantity * fills[1].price + Notional(Tail(fills))

\* C34: after any fills, the average price of a tracked order is the sum of
\* quantity * price over its recorded fills divided by the total filled
\* quantity when that total is positive, and absent when the total is 0.
C34_AveragePrice ==
    \A c \in DOMAIN active_orders :
        LET o == active_orders[c] IN
        IF o.total_filled > 0
        THEN /\ o.average_price # None
             /\ Unwrap(o.average_price).num * o.total_filled
                    = Notional(o.partial_fills) * Unwrap(o.average_price).den
        ELSE o.average_price = None

\* C37: in every reachable state, whatever the interleaving of place_order
\* calls and janitor sweeps, every client id that keys the active-order table
\* also keys the dedup map.
C37_ActiveOrdersAreDeduplicated ==
    DOMAIN active_orders \subseteq DOMAIN order_deduplication

\* C36: every place_order call terminates: under fair scheduling, with
\* adapter calls and backoff sleeps that return, a call that is under way
\* returns, after at most max_retries + 1 turns of the retry loop, whatever
\* the interleaving with other place_order calls, cancel_order /
\* get_order_status, register_exchange_adapter and cleanup_completed_orders.
C36_PlaceOrderTerminates ==
    /\ [](\A t \in Tasks : attempt[t] + 1 <= max_retries + 1)
    /\ \A t \in Tasks : Started(t) ~> (pc[t] = "done")

\* a call returned after max_retries + 1 turns of the loop, the last of which
\* reached the adapter registered meanwhile and had its fill recorded, while
\* another call was under way
C36_Witness ==
    \E t \in Tasks :
        /\ pc[t] = "done"
        /\ attempt[t] = max_retries
        /\ ret[t].ok
        /\ \E u \in Tasks \ {t} : Started(u)

====
